---- MODULE Spec2Model ----
(***************************************************************************)
(* A model of the photobak repository engine: the bolt index (db.go), the  *)
(* media list files (medialist.go), the repository's Store pipeline        *)
(* (repo.go) and Prune (prune.go).                                         *)
(*                                                                         *)
(* Paths are records instead of strings: a directory is                    *)
(* [acct, name, k] and a file is [dir, name, k], where k = 1 stands for    *)
(* the plain name and k > 1 for the name with the counter "-00k" that      *)
(* reserveUniqueFilename inserts.  A file's bytes are a content token; the *)
(* token "" is the empty file and "~" a partial download.                  *)
(***************************************************************************)
EXTENDS Naturals, Integers, Sequences, FiniteSets, TLC

VARIABLES
    db,        \* the bolt index: [items, colls, sums]
    fs,        \* the repository directory: [files, dirs, lists]
    remote,    \* what the provider lists: [colls, etag, content]
    reg,       \* the in-flight maps: [downloading, itemNames, itemChecksums]
    pc,        \* where each goroutine is
    loc,       \* each goroutine's local variables
    pool,      \* item contexts emitted and not yet received by a worker
    orch,      \* Store's orchestration: main goroutine, throttle, channels
    faults,    \* how many injected I/O failures may still happen
    hist       \* observations made for the properties (never read by the code)

vars == <<db, fs, remote, reg, pc, loc, pool, orch, faults, hist>>

\* Item.ItemName(): what the provider calls the item
ItemName(id) == remote.name[id]

(***************************************************************************)
(* The universe.                                                           *)
(***************************************************************************)
Accts == {"gp:u1", "gp:u2"}
ItemIds == {"p", "q"}
CollIds == {"A", "B", "C"}
Contents == {"X", "Y"}
ETags == {"e1", "e2"}
Provider == "gp"
MainAcct == "gp:u1"

None == "none"
\* a nil *dbItem / *dbCollection
Nil == [nil |-> TRUE]
NoSum == ""
NoDir == [acct |-> "", name |-> "", k |-> 0]
NoPath == [dir |-> NoDir, name |-> "", k |-> 0]
NoName == [name |-> "", k |-> 0]

\* crypto/sha256 over a content token: distinct tokens, distinct digests.
Sha256(c) == "sha:" \o c

Sums == {Sha256(c) : c \in Contents}

\* collections A and C have the same name
CollName(cid) == IF cid = "B" THEN "Best" ELSE "Album"

\* providerAccount.key and providerAccount.accountPath
AcctPath(a) == IF a = "gp:u1" THEN "gp/u1" ELSE "gp/u2"

(***************************************************************************)
(* Finite maps (a bolt bucket, a Go map, the directory tree).              *)
(***************************************************************************)
Put(f, k, v) == [x \in (DOMAIN f) \cup {k} |-> IF x = k THEN v ELSE f[x]]
Del(f, k) == [x \in (DOMAIN f) \ {k} |-> f[x]]
Has(f, k) == k \in DOMAIN f
Empty == [x \in {} |-> None]

RECURSIVE SetToSeq(_)
SetToSeq(S) == IF S = {} THEN <<>>
               ELSE LET x == CHOOSE y \in S : TRUE IN <<x>> \o SetToSeq(S \ {x})

RECURSIVE Filter(_, _)
Filter(s, x) == IF s = <<>> THEN <<>>
                ELSE (IF Head(s) = x THEN <<>> ELSE <<Head(s)>>) \o Filter(Tail(s), x)

Range(s) == {s[i] : i \in 1..Len(s)}

(***************************************************************************)
(* The index (boltDB).  Every operation below is one bolt transaction.     *)
(***************************************************************************)
EmptyDB == [items |-> Empty, colls |-> Empty, sums |-> Empty]

\* What gobDecode leaves in the zero dbItem / dbCollection that
\* addItemToCollection prepares when the key is absent.
ZeroItem == [ID |-> "", Name |-> "", FileName |-> NoName, FilePath |-> NoPath,
             Checksum |-> NoSum, ETag |-> "", Collections |-> {}]
ZeroColl == [ID |-> "", Name |-> "", DirName |-> NoName, DirPath |-> NoDir, Items |-> {}]

loadItem(d, a, id) == IF Has(d.items, <<a, id>>) THEN d.items[<<a, id>>] ELSE Nil
loadCollection(d, a, cid) == IF Has(d.colls, <<a, cid>>) THEN d.colls[<<a, cid>>] ELSE Nil
itemsWithChecksum(d, h) == IF Has(d.sums, h) THEN d.sums[h] ELSE <<>>
collectionIDs(d, a) == {k[2] : k \in {x \in DOMAIN d.colls : x[1] = a}}

saveCollection(d, a, cid, coll) == [d EXCEPT !.colls = Put(@, <<a, cid>>, coll)]
dbDeleteCollection(d, a, cid) == [d EXCEPT !.colls = Del(@, <<a, cid>>)]

\* a variant that records the membership on the item only
addItemToCollectionItemSideOnly(d, a, id, cid) ==
    LET item == IF Has(d.items, <<a, id>>) THEN d.items[<<a, id>>] ELSE ZeroItem
    IN  [d EXCEPT !.items = Put(@, <<a, id>>, [item EXCEPT !.Collections = @ \cup {cid}])]

addItemToCollection(d, a, id, cid) ==
    LET item == IF Has(d.items, <<a, id>>) THEN d.items[<<a, id>>] ELSE ZeroItem
        item2 == [item EXCEPT !.Collections = @ \cup {cid}]
        coll == IF Has(d.colls, <<a, cid>>) THEN d.colls[<<a, cid>>] ELSE ZeroColl
        coll2 == [coll EXCEPT !.Items = @ \cup {id}]
    IN  [d EXCEPT !.items = Put(@, <<a, id>>, item2),
                  !.colls = Put(@, <<a, cid>>, coll2)]

saveItemToCollection(d, a, id, cid) == addItemToCollection(d, a, id, cid)

\* The loop of removeItemFromChecksumIndex: it ranges over the list it
\* was given while cutting entries out of the same backing array.
\* arr is the backing array, n the length of the slice `list`, i the
\* (1-based) index the range statement is at, last the original length.
RECURSIVE CutLoop(_, _, _, _, _)
CutLoop(arr, n, i, last, key) ==
    IF i > last THEN SubSeq(arr, 1, n)
    ELSE IF arr[i] = key /\ i <= n
         THEN LET shifted == [j \in 1..Len(arr) |->
                                 IF j >= i /\ j < n THEN arr[j + 1] ELSE arr[j]]
              IN  CutLoop(shifted, n - 1, i + 1, last, key)
         ELSE CutLoop(arr, n, i + 1, last, key)

CutFromList(list, key) == CutLoop(list, Len(list), 1, Len(list), key)

removeItemFromChecksumIndex(d, item, a) ==
    LET list == CutFromList(itemsWithChecksum(d, item.Checksum), <<a, item.ID>>)
    IN  IF list = <<>> THEN [d EXCEPT !.sums = Del(@, item.Checksum)]
        ELSE [d EXCEPT !.sums = Put(@, item.Checksum, list)]

\* saveItem fails (and the transaction rolls back) when it has to Put a
\* checksum list under an empty key: bolt refuses the empty key.
saveItemFails(d, a, id, item) == item.Checksum = NoSum

RECURSIVE AddAll(_, _, _, _)
AddAll(d, a, id, cids) ==
    IF cids = {} THEN d
    ELSE LET c == CHOOSE x \in cids : TRUE
         IN  AddAll(addItemToCollection(d, a, id, c), a, id, cids \ {c})

\* a variant that never detaches the item from its previous checksum
saveItemKeepsOldChecksum(d, a, id, item) ==
    IF saveItemFails(d, a, id, item) THEN d
    ELSE
    LET d1 == [d EXCEPT !.items = Put(@, <<a, id>>, item)]
        d2 == AddAll(d1, a, id, item.Collections)
        list == itemsWithChecksum(d2, item.Checksum)
    IN  IF <<a, id>> \in Range(list) THEN d2
        ELSE [d2 EXCEPT !.sums = Put(@, item.Checksum, Append(list, <<a, id>>))]

saveItem(d, a, id, item) ==
    IF saveItemFails(d, a, id, item) THEN d
    ELSE
    LET savedItem == loadItem(d, a, id)
        d1 == [d EXCEPT !.items = Put(@, <<a, id>>, item)]
        d2 == AddAll(d1, a, id, item.Collections)
        d3 == IF savedItem # Nil /\ savedItem.Checksum # item.Checksum
              THEN removeItemFromChecksumIndex(d2, savedItem, a)
              ELSE d2
        list == itemsWithChecksum(d3, item.Checksum)
    IN  IF <<a, id>> \in Range(list) THEN d3
        ELSE [d3 EXCEPT !.sums = Put(@, item.Checksum, Append(list, <<a, id>>))]

\* boltDB.deleteItem dereferences the loaded item: it is only called for items
\* that exist.
dbDeleteItem(d, a, id) ==
    LET item == loadItem(d, a, id)
        d1 == removeItemFromChecksumIndex(d, item, a)
    IN  [d1 EXCEPT !.items = Del(@, <<a, id>>)]

(***************************************************************************)
(* The directory tree and the media list files (others.txt).               *)
(***************************************************************************)
EmptyFS == [files |-> Empty, dirs |-> {}, lists |-> Empty]

DirPathOf(a, name, k) == [acct |-> AcctPath(a), name |-> name, k |-> k]
FilePathOf(dir, name, k) == [dir |-> dir, name |-> name, k |-> k]
FileNameOf(name, k) == [name |-> name, k |-> k]

\* Repository.fileExists: os.Stat succeeds on a file or a directory.
fileExists(f, path) == Has(f.files, path) \/ path \in f.dirs

osRemove(f, path) == [f EXCEPT !.files = Del(@, path)]
osCreate(f, path) == [f EXCEPT !.files = Put(@, path, "")]
osMkdirAll(f, dir) == [f EXCEPT !.dirs = @ \cup {dir}]
osRename(f, old, new) ==
    IF Has(f.files, old)
    THEN [f EXCEPT !.files = Put(Del(@, old), new, f.files[old])]
    ELSE f

\* Repository.hash: the digest of the file; it fails when the file cannot
\* be opened.
hashFails(f, path) == ~Has(f.files, path)
hash(f, path) == IF Has(f.files, path) THEN Sha256(f.files[path]) ELSE NoSum

writeToMediaListFile(f, dir, dlPath) ==
    LET f1 == osMkdirAll(f, dir)
        old == IF Has(f1.lists, dir) THEN f1.lists[dir] ELSE <<>>
    IN  [f1 EXCEPT !.lists = Put(@, dir, Append(old, dlPath))]

\* the lines with an empty newPath written out as they are
RECURSIVE ReplaceLinesKeeping(_, _, _)
ReplaceLinesKeeping(lines, oldPath, newPath) ==
    IF lines = <<>> THEN <<>>
    ELSE LET line == Head(lines)
             rest == ReplaceLinesKeeping(Tail(lines), oldPath, newPath)
         IN  IF line = oldPath /\ newPath # NoPath
             THEN <<newPath>> \o rest
             ELSE <<line>> \o rest

RECURSIVE ReplaceLines(_, _, _)
ReplaceLines(lines, oldPath, newPath) ==
    IF lines = <<>> THEN <<>>
    ELSE LET line == Head(lines)
             rest == ReplaceLines(Tail(lines), oldPath, newPath)
         IN  IF line = oldPath
             THEN (IF newPath = NoPath THEN rest ELSE <<newPath>> \o rest)
             ELSE <<line>> \o rest

replaceInMediaListFile(f, dir, oldPath, newPath) ==
    IF ~Has(f.lists, dir) THEN f
    ELSE LET out == ReplaceLines(f.lists[dir], oldPath, newPath)
         IN  IF out = <<>> THEN [f EXCEPT !.lists = Del(@, dir)]
             ELSE [f EXCEPT !.lists = Put(@, dir, out)]

mediaListHasItem(f, dir, dbi) ==
    Has(f.lists, dir) /\ dbi.FilePath \in Range(f.lists[dir])

\* filepath.Join(dir, fileName): joining the empty name gives the directory
PathJoin(dir, fileName) ==
    IF fileName = NoName THEN dir ELSE FilePathOf(dir, fileName.name, fileName.k)

localCollectionHasItemOnDisk(f, dir, dbi) ==
    \/ fileExists(f, PathJoin(dir, dbi.FileName))
    \/ mediaListHasItem(f, dir, dbi)

(***************************************************************************)
(* Goroutines, their locals, and the in-flight maps.  A channel of the     *)
(* maps is named by its kind and the goroutine that made it; a goroutine   *)
(* that found one in a map holds it in `wait` until the maker closes it.   *)
(***************************************************************************)
Workers == {"w1", "w2", "w3"}

NoWait == [kind |-> "", owner |-> ""]
NoCtx == [acct |-> "", item |-> "", coll |-> "", dir |-> NoDir, integrity |-> FALSE]
NoIt == [fileName |-> NoName, filePath |-> NoPath, isNew |-> FALSE, collections |-> {}]

\* hwaited and made are observations for the properties: whether the
\* goroutine waited for a checksum, and the file it created last
LocInit == [ctx |-> NoCtx, wait |-> NoWait, loaded |-> Nil, it |-> NoIt,
            path |-> NoPath, tries |-> 0, sum |-> NoSum, dbi |-> Nil,
            same |-> <<>>, err |-> FALSE, hwaited |-> FALSE, made |-> NoPath,
            rdir |-> NoDir, rname |-> "", risdir |-> FALSE, rcand |-> 0,
            ri |-> 0, rret |-> "", rres |-> NoName,
            cand |-> <<>>, candPath |-> NoPath]

EmptyReg == [downloading |-> Empty, itemNames |-> Empty, itemChecksums |-> Empty]

\* Store and Prune are not running, nothing has been observed
OrchInit == [phase |-> "idle", towalk |-> {}, integrity |-> FALSE,
             configured |-> <<>>, workers |-> {}, runs |-> 0, changes |-> 0,
             prunes |-> 0, accts |-> <<>>, todo |-> <<>>, cur |-> Nil,
             items |-> {}, deleting |-> FALSE,
             calls |-> 0, isdir |-> FALSE,
             main |-> "idle", ai |-> 1, listed |-> <<>>, spawned |-> {},
             returned |-> {}, throttle |-> 0, fill |-> 0, closed |-> FALSE,
             result |-> "", exiting |-> FALSE, visited |-> {}]
HistInit == [ret |-> Empty, retMissing |-> FALSE, detached |-> FALSE, op |-> "",
             crash |-> Nil, before |-> Empty, downloads |-> 0,
             target |-> <<>>, names |-> <<>>, args |-> Nil, stream |-> Nil, skipped |-> {}]

\* close(ch): every goroutine blocked in <-ch goes on.
CloseChan(L, kind, owner) ==
    [q \in DOMAIN L |->
        IF L[q].wait = [kind |-> kind, owner |-> owner]
        THEN [L[q] EXCEPT !.wait = NoWait] ELSE L[q]]

(***************************************************************************)
(* Repository.reserveUniqueFilename, one action per critical section or    *)
(* system call.                                                            *)
(***************************************************************************)
\* the loop bound of reserveUniqueFilename: for i := 2; i < 1000; i++
CollisionLimit == 1000

\* filepath.Join(dir, candidate) for candidate number k of the call in l
CandidatePath(dir, name, isDir, k) ==
    IF isDir THEN [acct |-> dir.acct, name |-> name, k |-> k]
    ELSE FilePathOf(dir, name, k)

TargetPath(l, k) == CandidatePath(l.rdir, l.rname, l.risdir, k)

\* reserveUniqueFilename when nothing runs beside it: the candidate loop
\* and the creation in one piece (processCollection under one walker, and
\* Prune's movePhysicalFile).
RECURSIVE CandidateLoop(_, _, _, _, _, _)
CandidateLoop(f, dir, name, isDir, cand, i) ==
    IF i >= CollisionLimit \/ ~fileExists(f, CandidatePath(dir, name, isDir, cand))
    THEN cand
    ELSE CandidateLoop(f, dir, name, isDir, i, i + 1)

\* candidatePath is joined at the top of a turn: when the loop ends at
\* its limit the last candidate was never joined, and finalPath is the
\* path of the candidate before it
FinalOf(k) == IF k = CollisionLimit - 1 THEN k - 1 ELSE k

reserveUniqueFilename(f, dir, name, isDir) ==
    LET k == CandidateLoop(f, dir, name, isDir, 1, 2)
        final == CandidatePath(dir, name, isDir, FinalOf(k))
    IN  [fs |-> IF isDir THEN osMkdirAll(f, final) ELSE osCreate(f, final),
         name |-> FileNameOf(name, k)]

ReserveCall(l, dir, name, isDir, ret) ==
    [l EXCEPT !.rdir = dir, !.rname = name, !.risdir = isDir, !.rret = ret,
              !.rcand = 1, !.ri = 2, !.rres = NoName, !.err = FALSE]

\* itemNamesMu.Lock(); ch, taken := r.itemNames[targetPath]
ReserveEnter(p) ==
    /\ pc[p] = "r_enter"
    /\ LET key == TargetPath(loc[p], 1) IN
       IF Has(reg.itemNames, key)
       THEN /\ loc' = [loc EXCEPT ![p].wait =
                          [kind |-> "name", owner |-> reg.itemNames[key]]]
            /\ pc' = [pc EXCEPT ![p] = "r_wait"]
            /\ UNCHANGED reg
       ELSE /\ reg' = [reg EXCEPT !.itemNames = Put(@, key, p)]
            /\ pc' = [pc EXCEPT ![p] = "r_loop"]
            /\ UNCHANGED loc
    /\ UNCHANGED <<db, fs, remote, pool, orch, faults, hist>>

\* <-ch; itemNamesMu.Lock(); r.itemNames[targetPath] = ch (no second look)
ReserveAfterWait(p) ==
    /\ pc[p] = "r_wait"
    /\ loc[p].wait = NoWait
    /\ reg' = [reg EXCEPT !.itemNames = Put(@, TargetPath(loc[p], 1), p)]
    /\ pc' = [pc EXCEPT ![p] = "r_loop"]
    /\ UNCHANGED <<db, fs, remote, loc, pool, orch, faults, hist>>

\* one turn of the candidate loop
ReserveLoop(p) ==
    /\ pc[p] = "r_loop"
    /\ LET l == loc[p] IN
       IF l.ri >= CollisionLimit \/ ~fileExists(fs, TargetPath(l, l.rcand))
       THEN /\ pc' = [pc EXCEPT ![p] = "r_create"]
            /\ UNCHANGED loc
       ELSE /\ loc' = [loc EXCEPT ![p].rcand = l.ri, ![p].ri = l.ri + 1]
            /\ UNCHANGED pc
    /\ UNCHANGED <<db, fs, remote, reg, pool, orch, faults, hist>>

\* os.MkdirAll(finalPath) or os.Create(finalPath)
ReserveCreate(p) ==
    /\ pc[p] = "r_create"
    /\ LET l == loc[p]
           final == TargetPath(l, FinalOf(l.rcand))
       IN  /\ fs' = IF l.risdir THEN osMkdirAll(fs, final) ELSE osCreate(fs, final)
           /\ loc' = [loc EXCEPT ![p].rres = FileNameOf(l.rname, l.rcand),
                                  ![p].made = final]
    /\ pc' = [pc EXCEPT ![p] = "r_release"]
    /\ UNCHANGED <<db, remote, reg, pool, orch, faults, hist>>

\* os.Create fails: the candidate is returned with the error
ReserveCreateFails(p) ==
    /\ pc[p] = "r_create"
    /\ faults > 0
    /\ faults' = faults - 1
    /\ loc' = [loc EXCEPT ![p].rres = FileNameOf(loc[p].rname, loc[p].rcand),
                          ![p].err = TRUE]
    /\ pc' = [pc EXCEPT ![p] = "r_release"]
    /\ UNCHANGED <<db, fs, remote, reg, pool, orch, hist>>

\* the deferred function: delete(r.itemNames, targetPath); close(ch)
ReserveRelease(p) ==
    /\ pc[p] = "r_release"
    /\ reg' = [reg EXCEPT !.itemNames = Del(@, TargetPath(loc[p], 1))]
    /\ loc' = CloseChan(loc, "name", p)
    /\ pc' = [pc EXCEPT ![p] = loc[p].rret]
    /\ UNCHANGED <<db, fs, remote, pool, orch, faults, hist>>

Reserve(p) ==
    \/ ReserveEnter(p)
    \/ ReserveAfterWait(p)
    \/ ReserveLoop(p)
    \/ ReserveCreate(p)
    \/ ReserveRelease(p)

(***************************************************************************)
(* Repository.processItem and Repository.downloadAndSaveItem, run by the   *)
(* item workers of Store.  One action per critical section, bolt           *)
(* transaction or file operation; the *Fails actions are the error         *)
(* returns of the operation they follow.                                   *)
(***************************************************************************)
\* for i := 0; i < 3; i++ around client.DownloadItemInto
DownloadAttempts == 3

MapKey(c) == <<Provider, c.item>>

Goto(w, label) == pc' = [pc EXCEPT ![w] = label]

\* for itemCtx := range ctxChan, with the contexts taken from the pool
Receive(w) ==
    /\ pc[w] = "idle"
    /\ w \in orch.workers
    /\ \E c \in pool :
          /\ pool' = pool \ {c}
          /\ loc' = [loc EXCEPT ![w] = [LocInit EXCEPT !.ctx = c]]
    /\ Goto(w, "claim")
    /\ UNCHANGED <<db, fs, remote, reg, orch, faults, hist>>

\* a variant that claims the key without looking it up
ClaimItemNoLookup(w) ==
    /\ pc[w] = "claim"
    /\ reg' = [reg EXCEPT !.downloading = Put(@, MapKey(loc[w].ctx), w)]
    /\ Goto(w, "load")
    /\ UNCHANGED <<db, fs, remote, loc, pool, orch, faults, hist>>

\* downloadingMu.Lock(); look the key up; claim it or pick up the channel
ClaimItem(w) ==
    /\ pc[w] = "claim"
    /\ LET key == MapKey(loc[w].ctx) IN
       IF Has(reg.downloading, key)
       THEN /\ loc' = [loc EXCEPT ![w].wait =
                          [kind |-> "dl", owner |-> reg.downloading[key]]]
            /\ Goto(w, "claim_wait")
            /\ UNCHANGED reg
       ELSE /\ reg' = [reg EXCEPT !.downloading = Put(@, key, w)]
            /\ Goto(w, "load")
            /\ UNCHANGED loc
    /\ UNCHANGED <<db, fs, remote, pool, orch, faults, hist>>

\* <-otherDownloadingItem.completed, then around the loop again
ClaimWait(w) ==
    /\ pc[w] = "claim_wait"
    /\ loc[w].wait = NoWait
    /\ Goto(w, "claim")
    /\ UNCHANGED <<db, fs, remote, reg, loc, pool, orch, faults, hist>>

NewIt(c) == [fileName |-> FileNameOf(ItemName(c.item), 1),
             filePath |-> FilePathOf(c.dir, ItemName(c.item), 1),
             isNew |-> TRUE,
             collections |-> {c.coll}]

\* r.db.loadItem and the branch on loadedItem == nil
LoadItem(w) ==
    /\ pc[w] = "load"
    /\ LET c == loc[w].ctx
           li == loadItem(db, c.acct, c.item)
       IN  IF li = Nil
           THEN /\ loc' = [loc EXCEPT ![w].loaded = Nil, ![w].it = NewIt(c)]
                /\ Goto(w, "dl_mkdir")
           ELSE /\ loc' = [loc EXCEPT ![w].loaded = li]
                /\ Goto(w, "member")
    /\ UNCHANGED <<db, fs, remote, reg, pool, orch, faults, hist>>

LoadItemFails(w) ==
    /\ pc[w] = "load"
    /\ faults > 0
    /\ faults' = faults - 1
    /\ loc' = [loc EXCEPT ![w].err = TRUE]
    /\ Goto(w, "release")
    /\ UNCHANGED <<db, fs, remote, reg, pool, orch, hist>>

\* localCollectionHasItemOnDisk, and writeToMediaListFile when it says no
Member(w) ==
    /\ pc[w] = "member"
    /\ LET c == loc[w].ctx
           li == loc[w].loaded
           dbHas == c.coll \in li.Collections
       IN  /\ fs' = IF (~dbHas \/ c.integrity)
                       /\ ~localCollectionHasItemOnDisk(fs, c.dir, li)
                    THEN writeToMediaListFile(fs, c.dir, li.FilePath)
                    ELSE fs
           /\ Goto(w, IF dbHas THEN "integrity" ELSE "attach")
    /\ UNCHANGED <<db, remote, reg, loc, pool, orch, faults, hist>>

MemberFails(w) ==
    /\ pc[w] = "member"
    /\ faults > 0
    /\ LET c == loc[w].ctx
           li == loc[w].loaded
       IN  (c.coll \notin li.Collections \/ c.integrity)
    /\ faults' = faults - 1
    /\ loc' = [loc EXCEPT ![w].err = TRUE]
    /\ Goto(w, "release")
    /\ UNCHANGED <<db, fs, remote, reg, pool, orch, hist>>

\* r.db.saveItemToCollection for an item seen in a new collection
Attach(w) ==
    /\ pc[w] = "attach"
    /\ LET c == loc[w].ctx IN db' = saveItemToCollection(db, c.acct, c.item, c.coll)
    /\ Goto(w, "integrity")
    /\ UNCHANGED <<fs, remote, reg, loc, pool, orch, faults, hist>>

AttachFails(w) ==
    /\ pc[w] = "attach"
    /\ faults > 0
    /\ faults' = faults - 1
    /\ loc' = [loc EXCEPT ![w].err = TRUE]
    /\ Goto(w, "release")
    /\ UNCHANGED <<db, fs, remote, reg, pool, orch, hist>>

\* a variant that hashes the stored file whether checkIntegrity is set or
\* not
IntegrityAlwaysChecked(w) ==
    /\ pc[w] = "integrity"
    /\ LET c == loc[w].ctx
           li == loc[w].loaded
           corrupted == hashFails(fs, li.FilePath) \/ hash(fs, li.FilePath) # li.Checksum
           modifiedRemotely == li.ETag # remote.etag[c.item]
       IN  IF corrupted \/ modifiedRemotely
           THEN /\ loc' = [loc EXCEPT ![w].it =
                              [fileName |-> li.FileName, filePath |-> li.FilePath,
                               isNew |-> FALSE, collections |-> li.Collections]]
                /\ Goto(w, "dl_mkdir")
           ELSE /\ Goto(w, "release")
                /\ UNCHANGED loc
    /\ UNCHANGED <<db, fs, remote, reg, pool, orch, faults, hist>>

\* the integrity check and the etag comparison
Integrity(w) ==
    /\ pc[w] = "integrity"
    /\ LET c == loc[w].ctx
           li == loc[w].loaded
           corrupted == c.integrity /\ (hashFails(fs, li.FilePath)
                                         \/ hash(fs, li.FilePath) # li.Checksum)
           modifiedRemotely == li.ETag # remote.etag[c.item]
       IN  IF corrupted \/ modifiedRemotely
           THEN /\ loc' = [loc EXCEPT ![w].it =
                              [fileName |-> li.FileName, filePath |-> li.FilePath,
                               isNew |-> FALSE, collections |-> li.Collections]]
                /\ Goto(w, "dl_mkdir")
           ELSE /\ Goto(w, "release")
                /\ UNCHANGED loc
    /\ UNCHANGED <<db, fs, remote, reg, pool, orch, faults, hist>>

\* a variant that reserves a file name for every item, new or not
DownloadMkdirAlwaysReserving(w) ==
    /\ pc[w] = "dl_mkdir"
    /\ LET c == loc[w].ctx
           l1 == [loc[w] EXCEPT !.it.collections = @ \cup {c.coll}]
       IN  /\ fs' = osMkdirAll(fs, c.dir)
           /\ loc' = [loc EXCEPT ![w] =
                         ReserveCall(l1, c.dir, ItemName(c.item), FALSE, "dl_reserved")]
           /\ Goto(w, "r_enter")
    /\ UNCHANGED <<db, remote, reg, pool, orch, faults, hist>>

\* downloadAndSaveItem up to the filename: the collection's folder, and
\* for a new item the call of reserveUniqueFilename
DownloadMkdir(w) ==
    /\ pc[w] = "dl_mkdir"
    /\ LET c == loc[w].ctx
           l1 == [loc[w] EXCEPT !.it.collections = @ \cup {c.coll}]
       IN  /\ fs' = osMkdirAll(fs, c.dir)
           /\ IF l1.it.isNew
              THEN /\ loc' = [loc EXCEPT ![w] =
                                 ReserveCall(l1, c.dir, ItemName(c.item), FALSE, "dl_reserved")]
                   /\ Goto(w, "r_enter")
              ELSE /\ loc' = [loc EXCEPT ![w] = [l1 EXCEPT !.path = l1.it.filePath]]
                   /\ Goto(w, "dl_attempt")
    /\ UNCHANGED <<db, remote, reg, pool, orch, faults, hist>>

\* back from reserveUniqueFilename
DownloadReserved(w) ==
    /\ pc[w] = "dl_reserved"
    /\ LET l == loc[w]
           fp == FilePathOf(l.ctx.dir, l.rres.name, l.rres.k)
       IN  IF l.err
           THEN /\ Goto(w, "fail")
                /\ UNCHANGED loc
           ELSE /\ loc' = [loc EXCEPT ![w].it.fileName = l.rres,
                                      ![w].it.filePath = fp,
                                      ![w].path = fp]
                /\ Goto(w, "dl_attempt")
    /\ UNCHANGED <<db, fs, remote, reg, pool, orch, faults, hist>>

\* a variant that neither truncates the file nor starts a new hash: the
\* bytes follow what a failed attempt left
DownloadItemIntoAppending(w) ==
    /\ pc[w] = "dl_attempt"
    /\ loc[w].path # NoPath
    /\ LET l == loc[w]
           c == l.ctx
           bytes == IF l.tries > 0 /\ Has(fs.files, l.path)
                    THEN fs.files[l.path] \o remote.content[c.item]
                    ELSE remote.content[c.item]
       IN  /\ fs' = [fs EXCEPT !.files = Put(@, l.path, bytes)]
           /\ loc' = [loc EXCEPT
                 ![w].made = l.path,
                 ![w].sum = Sha256(bytes),
                 ![w].dbi = [ID |-> c.item, Name |-> ItemName(c.item),
                             FileName |-> l.it.fileName, FilePath |-> l.it.filePath,
                             Checksum |-> Sha256(bytes), ETag |-> remote.etag[c.item],
                             Collections |-> l.it.collections]]
    /\ Goto(w, "hash_lock")
    /\ UNCHANGED <<db, remote, reg, pool, orch, faults>>

\* one attempt that succeeds: os.Create, DownloadItemInto, and the record
DownloadItemInto(w) ==
    /\ pc[w] = "dl_attempt"
    /\ loc[w].path # NoPath
    /\ LET l == loc[w]
           c == l.ctx
           bytes == remote.content[c.item]
       IN  /\ fs' = [fs EXCEPT !.files = Put(@, l.path, bytes)]
           /\ loc' = [loc EXCEPT
                 ![w].made = l.path,
                 ![w].sum = Sha256(bytes),
                 ![w].dbi = [ID |-> c.item, Name |-> ItemName(c.item),
                             FileName |-> l.it.fileName, FilePath |-> l.it.filePath,
                             Checksum |-> Sha256(bytes), ETag |-> remote.etag[c.item],
                             Collections |-> l.it.collections]]
    /\ Goto(w, "hash_lock")
    /\ UNCHANGED <<db, remote, reg, pool, orch, faults>>

DownloadAttempt(w) ==
    /\ DownloadItemInto(w)
    /\ UNCHANGED hist

\* a record without a file path (one that saveItemToCollection made) has
\* the repository folder as its path: os.Create fails
DownloadNoPath(w) ==
    /\ pc[w] = "dl_attempt"
    /\ loc[w].path = NoPath
    /\ loc' = [loc EXCEPT ![w].err = TRUE]
    /\ Goto(w, "fail")
    /\ UNCHANGED <<db, fs, remote, reg, pool, orch, faults, hist>>

\* one attempt that fails part way: the file is left truncated
DownloadAttemptFails(w) ==
    /\ pc[w] = "dl_attempt"
    /\ loc[w].path # NoPath
    /\ faults > 0
    /\ faults' = faults - 1
    /\ fs' = [fs EXCEPT !.files = Put(@, loc[w].path, "~")]
    /\ IF loc[w].tries + 1 >= DownloadAttempts
       THEN /\ loc' = [loc EXCEPT ![w].tries = @ + 1, ![w].err = TRUE,
                                   ![w].made = loc[w].path]
            /\ Goto(w, "fail")
       ELSE /\ loc' = [loc EXCEPT ![w].tries = @ + 1, ![w].made = loc[w].path]
            /\ UNCHANGED pc
    /\ UNCHANGED <<db, remote, reg, pool, orch, hist>>

\* a variant that takes the checksum without looking it up
HashLockNoLookup(w) ==
    /\ pc[w] = "hash_lock"
    /\ reg' = [reg EXCEPT !.itemChecksums = Put(@, loc[w].sum, w)]
    /\ Goto(w, "dedup")
    /\ UNCHANGED <<db, fs, remote, loc, pool, orch, faults, hist>>

\* itemChecksumsMu.Lock(); claim the checksum or pick up the channel
HashLock(w) ==
    /\ pc[w] = "hash_lock"
    /\ LET key == loc[w].sum IN
       IF Has(reg.itemChecksums, key)
       THEN /\ loc' = [loc EXCEPT ![w].wait =
                          [kind |-> "sum", owner |-> reg.itemChecksums[key]],
                                   ![w].hwaited = TRUE]
            /\ Goto(w, "hash_wait")
            /\ UNCHANGED reg
       ELSE /\ reg' = [reg EXCEPT !.itemChecksums = Put(@, key, w)]
            /\ Goto(w, "dedup")
            /\ UNCHANGED loc
    /\ UNCHANGED <<db, fs, remote, pool, orch, faults, hist>>

HashWait(w) ==
    /\ pc[w] = "hash_wait"
    /\ loc[w].wait = NoWait
    /\ Goto(w, "hash_lock")
    /\ UNCHANGED <<db, fs, remote, reg, loc, pool, orch, faults, hist>>

\* if it.isNew: r.db.itemsWithChecksum
Dedup(w) ==
    /\ pc[w] = "dedup"
    /\ LET l == loc[w]
           sameItems == IF l.it.isNew THEN itemsWithChecksum(db, l.sum) ELSE <<>>
       IN  /\ loc' = [loc EXCEPT ![w].same = sameItems]
           /\ Goto(w, IF Len(sameItems) > 0 THEN "dedup_rm" ELSE "commit")
    /\ UNCHANGED <<db, fs, remote, reg, pool, orch, faults, hist>>

DedupFails(w) ==
    /\ pc[w] = "dedup"
    /\ loc[w].it.isNew
    /\ faults > 0
    /\ faults' = faults - 1
    /\ loc' = [loc EXCEPT ![w].err = TRUE]
    /\ Goto(w, "hash_release")
    /\ UNCHANGED <<db, fs, remote, reg, pool, orch, hist>>

\* downloadingItem.remove() removes the file and forgets the path
RemoveDownloading(f, l) == IF l.path # NoPath THEN osRemove(f, l.path) ELSE f

\* the copy just downloaded goes; the record points at the first item
\* that has the checksum
DedupRemove(w) ==
    /\ pc[w] = "dedup_rm"
    /\ LET l == loc[w]
           sameContent == loadItem(db, l.same[1][1], l.same[1][2])
       IN  /\ fs' = RemoveDownloading(fs, l)
           /\ IF sameContent = Nil
              THEN /\ loc' = [loc EXCEPT ![w].path = NoPath, ![w].err = TRUE]
                   /\ Goto(w, "hash_release")
              ELSE /\ loc' = [loc EXCEPT ![w].path = NoPath,
                                         ![w].dbi.FilePath = sameContent.FilePath]
                   /\ Goto(w, "dedup_list")
    /\ UNCHANGED <<db, remote, reg, pool, orch, faults, hist>>

\* saveToMediaListFile: the line, then the membership
DedupList(w) ==
    /\ pc[w] = "dedup_list"
    /\ fs' = writeToMediaListFile(fs, loc[w].ctx.dir, loc[w].dbi.FilePath)
    /\ Goto(w, "dedup_attach")
    /\ UNCHANGED <<db, remote, reg, loc, pool, orch, faults, hist>>

DedupListFails(w) ==
    /\ pc[w] = "dedup_list"
    /\ faults > 0
    /\ faults' = faults - 1
    /\ loc' = [loc EXCEPT ![w].err = TRUE]
    /\ Goto(w, "hash_release")
    /\ UNCHANGED <<db, fs, remote, reg, pool, orch, hist>>

DedupAttach(w) ==
    /\ pc[w] = "dedup_attach"
    /\ LET c == loc[w].ctx IN db' = saveItemToCollection(db, c.acct, c.item, c.coll)
    /\ Goto(w, "commit")
    /\ UNCHANGED <<fs, remote, reg, loc, pool, orch, faults, hist>>

DedupAttachFails(w) ==
    /\ pc[w] = "dedup_attach"
    /\ faults > 0
    /\ faults' = faults - 1
    /\ loc' = [loc EXCEPT ![w].err = TRUE]
    /\ Goto(w, "hash_release")
    /\ UNCHANGED <<db, fs, remote, reg, pool, orch, hist>>

\* r.db.saveItem, then downloadingItem.path = ""
Commit(w) ==
    /\ pc[w] = "commit"
    /\ LET l == loc[w] IN db' = saveItem(db, l.ctx.acct, l.ctx.item, l.dbi)
    /\ loc' = [loc EXCEPT ![w].path = NoPath]
    /\ Goto(w, "hash_release")
    /\ UNCHANGED <<fs, remote, reg, pool, orch, faults, hist>>

\* r.db.saveItem fails: downloadingItem.remove()
CommitFails(w) ==
    /\ pc[w] = "commit"
    /\ faults > 0
    /\ faults' = faults - 1
    /\ fs' = RemoveDownloading(fs, loc[w])
    /\ loc' = [loc EXCEPT ![w].path = NoPath, ![w].err = TRUE]
    /\ Goto(w, "hash_release")
    /\ UNCHANGED <<db, remote, reg, pool, orch, hist>>

\* a variant that releases the checksum only where no error is returned
HashReleaseUnlessFailed(w) ==
    /\ pc[w] = "hash_release"
    /\ reg' = IF loc[w].err THEN reg ELSE [reg EXCEPT !.itemChecksums = Del(@, loc[w].sum)]
    /\ loc' = IF loc[w].err THEN loc ELSE CloseChan(loc, "sum", w)
    /\ Goto(w, IF loc[w].err THEN "fail" ELSE "release")
    /\ UNCHANGED <<db, fs, remote, pool, orch, faults, hist>>

\* the deferred delete(r.itemChecksums, hashStr); close(hashChan)
HashRelease(w) ==
    /\ pc[w] = "hash_release"
    /\ reg' = [reg EXCEPT !.itemChecksums = Del(@, loc[w].sum)]
    /\ loc' = CloseChan(loc, "sum", w)
    /\ Goto(w, IF loc[w].err THEN "fail" ELSE "release")
    /\ UNCHANGED <<db, fs, remote, pool, orch, faults, hist>>

\* processItem after downloadAndSaveItem returned an error
DownloadFailed(w) ==
    /\ pc[w] = "fail"
    /\ fs' = RemoveDownloading(fs, loc[w])
    /\ loc' = [loc EXCEPT ![w].path = NoPath]
    /\ Goto(w, "release")
    /\ UNCHANGED <<db, remote, reg, pool, orch, faults, hist>>

\* a variant in which the worker's loop ends with the first processItem
\* that returned an error
ReleaseItemAndStop(w) ==
    /\ pc[w] = "release"
    /\ reg' = [reg EXCEPT !.downloading = Del(@, MapKey(loc[w].ctx))]
    /\ loc' = [q \in Workers |->
                 IF q = w THEN LocInit ELSE CloseChan(loc, "dl", w)[q]]
    /\ Goto(w, IF loc[w].err THEN "exited" ELSE "idle")
    /\ UNCHANGED <<db, fs, remote, pool, orch, faults, hist>>

\* the deferred delete(r.downloading, mapKey); close(completed)
ReleaseItem(w) ==
    /\ pc[w] = "release"
    /\ reg' = [reg EXCEPT !.downloading = Del(@, MapKey(loc[w].ctx))]
    /\ loc' = [q \in Workers |->
                 IF q = w THEN LocInit ELSE CloseChan(loc, "dl", w)[q]]
    /\ Goto(w, "idle")
    /\ UNCHANGED <<db, fs, remote, pool, orch, faults, hist>>

ProcessItem(w) ==
    \/ ClaimItem(w)
    \/ ClaimWait(w)
    \/ LoadItem(w)
    \/ Member(w)
    \/ Attach(w)
    \/ Integrity(w)
    \/ DownloadMkdir(w)
    \/ Reserve(w)
    \/ DownloadReserved(w)
    \/ DownloadAttempt(w)
    \/ HashLock(w)
    \/ HashWait(w)
    \/ Dedup(w)
    \/ DedupRemove(w)
    \/ DedupList(w)
    \/ DedupAttach(w)
    \/ Commit(w)
    \/ HashRelease(w)
    \/ ReleaseItem(w)

ProcessItemFails(w) ==
    \/ LoadItemFails(w)
    \/ MemberFails(w)
    \/ AttachFails(w)
    \/ ReserveCreateFails(w)
    \/ DownloadAttemptFails(w)
    \/ DedupFails(w)
    \/ DedupListFails(w)
    \/ DedupAttachFails(w)
    \/ CommitFails(w)
    \/ DownloadNoPath(w)
    \/ DownloadFailed(w)

(***************************************************************************)
(* Repository.Store around the workers: the walkers that run               *)
(* processCollection, and the provider between runs.                       *)
(***************************************************************************)
AcctDirOf(a) == [acct |-> AcctPath(a), name |-> "", k |-> 0]

ContextsOf(a, cid, dirPath, checkIntegrity) ==
    {[acct |-> a, item |-> i, coll |-> cid, dir |-> dirPath,
      integrity |-> checkIntegrity] : i \in remote.colls[<<a, cid>>]}

\* numCollWorkers := r.NumWorkers / 2, at least 1: the capacity of throttle
NumCollWorkers ==
    IF Cardinality(orch.workers) \div 2 < 1 THEN 1 ELSE Cardinality(orch.workers) \div 2

\* the collections whose processCollection has not returned: it returns
\* when ListCollectionItems has handed over its last item, that is when at
\* most one of its contexts, the one its forwarder holds, is not received
Walking ==
    {k \in {<<c.acct, c.coll>> : c \in pool} :
        Cardinality({c \in pool : <<c.acct, c.coll>> = k}) > 1}

\* Store is called: the account's collections are listed
StoreCalled ==
    /\ orch.phase = "idle"
    /\ orch.runs > 0
    /\ \E ci \in (IF db.items = Empty THEN {FALSE} ELSE BOOLEAN) :
          orch' = [orch EXCEPT !.phase = "store", !.runs = @ - 1,
                               !.integrity = ci,
                               !.towalk = {k \in DOMAIN remote.colls :
                                             k[1] = Head(orch.configured)}]
    /\ UNCHANGED <<db, fs, remote, reg, pc, loc, pool, faults>>

StoreBegin ==
    /\ StoreCalled
    /\ UNCHANGED hist

\* processCollection for one listed collection: the record, the folder of
\* a collection seen for the first time, and one context per listed item
processCollection(a, cid) ==
    /\ orch.phase = "store"
    /\ <<a, cid>> \in orch.towalk
    /\ Cardinality(Walking) < NumCollWorkers
    /\ LET dbc == loadCollection(db, a, cid)
           r == reserveUniqueFilename(fs, AcctDirOf(a), CollName(cid), TRUE)
           dirName == IF dbc = Nil THEN r.name ELSE dbc.DirName
           dirPath == IF dirName = NoName THEN AcctDirOf(a)
                      ELSE DirPathOf(a, dirName.name, dirName.k)
           dbc2 == IF dbc = Nil
                   THEN [ID |-> cid, Name |-> CollName(cid), DirName |-> dirName,
                         DirPath |-> dirPath, Items |-> {}]
                   ELSE dbc
       IN  /\ fs' = IF dbc = Nil THEN r.fs ELSE fs
           /\ db' = saveCollection(db, a, cid, dbc2)
           /\ pool' = pool \cup ContextsOf(a, cid, dirPath, orch.integrity)
    /\ orch' = [orch EXCEPT !.towalk = @ \ {<<a, cid>>}]
    /\ UNCHANGED <<remote, reg, pc, loc, faults, hist>>

\* collWg.Wait(); close(ctxChan); workerWg.Wait(); return nil
StoreEnd ==
    /\ orch.phase = "store"
    /\ orch.towalk = {}
    /\ pool = {}
    /\ \A w \in Workers : pc[w] = "idle"
    /\ orch' = [orch EXCEPT !.phase = "idle"]
    /\ UNCHANGED <<db, fs, remote, reg, pc, loc, pool, faults, hist>>

OtherETag(e) == CHOOSE x \in ETags : x # e

\* the provider, between runs and once something has been stored (Init
\* ranges over what it lists before): an item is edited (new etag, any
\* content)
RemoteEdit(id) ==
    /\ orch.phase = "idle"
    /\ orch.changes > 0
    /\ db # EmptyDB
    /\ \E c \in Contents :
          remote' = [remote EXCEPT !.etag[id] = OtherETag(@), !.content[id] = c]
    /\ orch' = [orch EXCEPT !.changes = @ - 1]
    /\ UNCHANGED <<db, fs, reg, pc, loc, pool, faults, hist>>

\* a collection is listed with other items, or listed for the first time
RemoteList(a, cid) ==
    /\ orch.phase = "idle"
    /\ orch.changes > 0
    /\ db # EmptyDB
    /\ \E S \in SUBSET ItemIds :
          /\ Has(remote.colls, <<a, cid>>) => remote.colls[<<a, cid>>] # S
          /\ remote' = [remote EXCEPT !.colls = Put(@, <<a, cid>>, S)]
    /\ orch' = [orch EXCEPT !.changes = @ - 1]
    /\ UNCHANGED <<db, fs, reg, pc, loc, pool, faults, hist>>

\* a collection is no longer listed
RemoteUnlist(a, cid) ==
    /\ orch.phase = "idle"
    /\ orch.changes > 0
    /\ db # EmptyDB
    /\ Has(remote.colls, <<a, cid>>)
    /\ remote' = [remote EXCEPT !.colls = Del(@, <<a, cid>>)]
    /\ orch' = [orch EXCEPT !.changes = @ - 1]
    /\ UNCHANGED <<db, fs, reg, pc, loc, pool, faults, hist>>

(***************************************************************************)
(* Prune (prune.go).  The helpers are functions of the index and the       *)
(* directory tree: St is what a helper leaves behind, err is "" (nil),     *)
(* "err" (an error return) or "panic" (a nil dereference).  Where Go       *)
(* ranges over a map and the order cannot matter, the order is CHOOSE's.   *)
(***************************************************************************)
St(d, f, e) == [db |-> d, fs |-> f, err |-> e, path |-> NoPath, dbi |-> Nil]

\* the first entry equal to key cut out of the list (the loop with break)
RECURSIVE CutFirst(_, _)
CutFirst(list, key) ==
    IF list = <<>> THEN <<>>
    ELSE IF Head(list) = key THEN Tail(list)
    ELSE <<Head(list)>> \o CutFirst(Tail(list), key)

\* replaceInMediaListFile in every collection of cids that account a has
RECURSIVE ReplaceInLists(_, _, _, _, _)
ReplaceInLists(S, a, cids, oldPath, newPath) ==
    IF cids = {} \/ S.err # "" THEN S
    ELSE LET c == CHOOSE x \in cids : TRUE
             otherColl == loadCollection(S.db, a, c)
         IN  IF otherColl = Nil THEN [S EXCEPT !.err = "panic"]
             ELSE ReplaceInLists(
                    [S EXCEPT !.fs = replaceInMediaListFile(@, otherColl.DirPath,
                                                            oldPath, newPath)],
                    a, cids \ {c}, oldPath, newPath)

RECURSIVE SharedLoop(_, _, _, _, _)
SharedLoop(S, list, acctKey, dbi, newFilePath) ==
    IF list = <<>> \/ S.err # "" THEN S
    ELSE LET li == Head(list)
             otherItem == loadItem(S.db, li[1], li[2])
         IN  IF li = <<acctKey, dbi.ID>>
             THEN SharedLoop(S, Tail(list), acctKey, dbi, newFilePath)
             ELSE IF otherItem = Nil THEN [S EXCEPT !.err = "panic"]
             ELSE LET S1 == ReplaceInLists(S, li[1], otherItem.Collections,
                                           otherItem.FilePath, newFilePath)
                      moved == [otherItem EXCEPT !.FilePath = newFilePath]
                  IN  IF S1.err # "" THEN S1
                      ELSE IF saveItemFails(S1.db, li[1], li[2], moved)
                      THEN [S1 EXCEPT !.err = "err"]
                      ELSE SharedLoop([S1 EXCEPT !.db = saveItem(@, li[1], li[2], moved)],
                                      Tail(list), acctKey, dbi, newFilePath)

moveSharedChecksumFile(S, acctKey, dbi, newFilePath) ==
    SharedLoop(S, itemsWithChecksum(S.db, dbi.Checksum), acctKey, dbi, newFilePath)

\* pick is the collection the range over dest.Collections comes to first
movePhysicalFile(S, originAcctKey, originColl, origin, dest, destAcctKey, pick) ==
    LET cands == {c \in dest.Collections : c # originColl.ID}
        destCollID == IF pick \in cands THEN pick ELSE CHOOSE c \in cands : TRUE
        destColl == loadCollection(S.db, destAcctKey, destCollID)
        r == reserveUniqueFilename(S.fs, destColl.DirPath, dest.Name, FALSE)
        newFilePath == PathJoin(destColl.DirPath, r.name)
        S1 == [S EXCEPT !.fs = osRename(r.fs, origin.FilePath, newFilePath),
                        !.path = newFilePath]
        S2 == [S1 EXCEPT !.fs = replaceInMediaListFile(@, destColl.DirPath,
                                                       origin.FilePath, NoPath)]
        S3 == ReplaceInLists(S2, originAcctKey,
                             origin.Collections \ {destColl.ID, originColl.ID},
                             origin.FilePath, newFilePath)
    IN  IF cands = {} THEN [S EXCEPT !.err = "err"]
        ELSE IF destColl = Nil THEN [S EXCEPT !.err = "panic"]
        ELSE IF destColl.DirPath \notin S.fs.dirs THEN [S EXCEPT !.err = "err"]
        ELSE IF ~Has(r.fs.files, origin.FilePath)
        THEN [S EXCEPT !.fs = r.fs, !.path = newFilePath, !.err = "err"]
        ELSE IF S3.err # "" THEN S3
        ELSE moveSharedChecksumFile(S3, originAcctKey, origin, newFilePath)

\* S.dbi is the item the caller holds: its Collections shrink in place
removeItemFromCollection(S, a, collID) ==
    LET dbi == S.dbi
        dbc == loadCollection(S.db, a, collID)
        f1 == replaceInMediaListFile(S.fs, dbc.DirPath, dbi.FilePath, NoPath)
        d1 == saveCollection(S.db, a, dbc.ID, [dbc EXCEPT !.Items = @ \ {dbi.ID}])
        dbi2 == [dbi EXCEPT !.Collections = @ \ {dbc.ID}]
    IN  IF dbc = Nil THEN [S EXCEPT !.err = "panic"]
        ELSE IF dbc.ID = "" THEN [S EXCEPT !.fs = f1, !.err = "err"]
        ELSE IF saveItemFails(d1, a, dbi.ID, dbi2)
        THEN [S EXCEPT !.db = d1, !.fs = f1, !.dbi = dbi2, !.err = "err"]
        ELSE [S EXCEPT !.db = saveItem(d1, a, dbi.ID, dbi2), !.fs = f1, !.dbi = dbi2]

\* deleteItem's loop over dbi.Collections: an error is logged and the loop
\* goes on
RECURSIVE RemoveFromAll(_, _, _)
RemoveFromAll(S, a, cids) ==
    IF cids = {} \/ S.err = "panic" THEN S
    ELSE LET c == CHOOSE x \in cids : TRUE
             S1 == removeItemFromCollection([S EXCEPT !.err = ""], a, c)
         IN  RemoveFromAll(S1, a, cids \ {c})

deleteItem(S, a, dbc, pick) ==
    LET dbi == S.dbi
        list == CutFirst(itemsWithChecksum(S.db, dbi.Checksum), <<a, dbi.ID>>)
        otherItem == loadItem(S.db, list[1][1], list[1][2])
        S1 == IF ~fileExists(S.fs, PathJoin(dbc.DirPath, dbi.FileName)) THEN S
              ELSE IF list = <<>> THEN [S EXCEPT !.fs = osRemove(@, dbi.FilePath)]
              ELSE IF otherItem = Nil THEN [S EXCEPT !.err = "panic"]
              ELSE movePhysicalFile(S, a, dbc, dbi, otherItem, list[1][1], pick)
        S2 == RemoveFromAll(S1, a, dbi.Collections)
    IN  IF S1.err # "" THEN S1
        ELSE IF S2.err = "panic" THEN S2
        ELSE IF loadItem(S2.db, a, dbi.ID) = Nil THEN [S2 EXCEPT !.err = "panic"]
        ELSE [S2 EXCEPT !.db = dbDeleteItem(@, a, dbi.ID), !.err = ""]

deleteItemFromCollection(S, a, dbc, pick) ==
    LET dbi == S.dbi
        mv == movePhysicalFile(S, a, dbc, dbi, dbi, a, pick)
    IN  IF Cardinality(dbi.Collections) = 1 THEN deleteItem(S, a, dbc, pick)
        ELSE IF fileExists(S.fs, PathJoin(dbc.DirPath, dbi.FileName))
        THEN IF mv.err # "" THEN mv
             ELSE removeItemFromCollection([mv EXCEPT !.dbi.FilePath = mv.path],
                                           a, dbc.ID)
        ELSE removeItemFromCollection(S, a, dbc.ID)

\* getRemoteState: the collections listed for the account, with their items
getRemoteState(a) ==
    [cid \in {k[2] : k \in {x \in DOMAIN remote.colls : x[1] = a}} |->
        remote.colls[<<a, cid>>]]

\* bolt's key order of the collections bucket
CollOrder == <<"A", "B", "C">>

InSet(S, x) == x \in S

\* Prune is called
PruneBegin ==
    /\ orch.phase = "idle"
    /\ orch.prunes > 0
    /\ orch' = [orch EXCEPT !.phase = "prune", !.prunes = @ - 1, !.accts = orch.configured]
    /\ UNCHANGED <<db, fs, remote, reg, pc, loc, pool, faults, hist>>

\* for _, ac := range accounts: getRemoteState and collectionIDs
PruneAccount ==
    /\ orch.phase = "prune"
    /\ orch.cur = Nil /\ orch.todo = <<>> /\ orch.accts # <<>>
    /\ LET a == Head(orch.accts)
           ids == collectionIDs(db, a)
       IN  orch' = [orch EXCEPT !.accts = Tail(@),
                      !.todo = [n \in 1..Len(SelectSeq(CollOrder, LAMBDA c : c \in ids)) |->
                                   <<a, SelectSeq(CollOrder, LAMBDA c : c \in ids)[n]>>]]
    /\ UNCHANGED <<db, fs, remote, reg, pc, loc, pool, faults, hist>>

PruneStop == [orch EXCEPT !.phase = "idle", !.accts = <<>>, !.todo = <<>>,
                          !.cur = Nil, !.items = {}, !.deleting = FALSE,
                          !.result = "err"]

\* for _, collID := range localCollections: load it and see what must go
PruneCollection ==
    /\ orch.phase = "prune"
    /\ orch.cur = Nil /\ orch.todo # <<>>
    /\ LET a == Head(orch.todo)[1]
           collID == Head(orch.todo)[2]
           state == getRemoteState(a)
           coll == loadCollection(db, a, collID)
           gone == collID \notin DOMAIN state
       IN  IF coll = Nil THEN orch' = PruneStop
           ELSE orch' = [orch EXCEPT !.todo = Tail(@),
                           !.cur = [acct |-> a, coll |-> coll],
                           !.deleting = gone,
                           !.items = IF gone THEN coll.Items
                                     ELSE {i \in coll.Items : i \notin state[collID]}]
    /\ UNCHANGED <<db, fs, remote, reg, pc, loc, pool, faults, hist>>

\* one turn of the loop over coll.Items, in Prune or in deleteCollection
PruneItem(itemID, pick) ==
    /\ orch.phase = "prune"
    /\ orch.cur # Nil
    /\ itemID \in orch.items
    /\ LET a == orch.cur.acct
           item == loadItem(db, a, itemID)
           R == deleteItemFromCollection([St(db, fs, "") EXCEPT !.dbi = item],
                                         a, orch.cur.coll, pick)
       IN  IF item = Nil
           THEN /\ orch' = PruneStop
                /\ UNCHANGED <<db, fs, hist>>
           ELSE /\ db' = R.db
                /\ fs' = R.fs
                /\ orch' = IF R.err = "" THEN [orch EXCEPT !.items = @ \ {itemID}]
                           ELSE IF R.err = "err" /\ orch.deleting
                           THEN [orch EXCEPT !.cur = Nil, !.items = {}, !.deleting = FALSE]
                           ELSE PruneStop
                /\ hist' = [hist EXCEPT !.detached = @ \/ R.err = ""]
    /\ UNCHANGED <<remote, reg, pc, loc, pool, faults>>

(***************************************************************************)
(* File names as text: the names reserveUniqueFilename makes up, and the   *)
(* names deleteCollection reads from the folder.                           *)
(***************************************************************************)
Digit == <<"0", "1", "2", "3", "4", "5", "6", "7", "8", "9">>

\* fmt.Sprintf("%03d", i), for i below 1000
Pad3(i) == <<Digit[((i \div 100) % 10) + 1], Digit[((i \div 10) % 10) + 1],
             Digit[(i % 10) + 1]>>

\* the index of the first "." of the name, 0 when it has none
FirstDot(s) ==
    IF \E n \in 1..Len(s) : s[n] = "."
    THEN CHOOSE n \in 1..Len(s) : s[n] = "." /\ \A m \in 1..(n - 1) : s[m] # "."
    ELSE 0

\* the counter joined in before the last "." of the name
candidateNameAtLastDot(targetName, i) ==
    LET dots == {n \in 1..Len(targetName) : targetName[n] = "."}
        d == IF dots = {} THEN 0 ELSE CHOOSE n \in dots : \A m \in dots : m <= n
    IN  IF d = 0 THEN targetName \o <<"-">> \o Pad3(i)
        ELSE SubSeq(targetName, 1, d - 1) \o <<"-">> \o Pad3(i) \o <<".">>
                \o SubSeq(targetName, d + 1, Len(targetName))

\* strings.SplitN(targetName, ".", 2) and the two ways of joining the
\* counter in
candidateName(targetName, i) ==
    LET d == FirstDot(targetName)
    IN  IF d = 0 THEN targetName \o <<"-">> \o Pad3(i)
        ELSE SubSeq(targetName, 1, d - 1) \o <<"-">> \o Pad3(i) \o <<".">>
                \o SubSeq(targetName, d + 1, Len(targetName))

\* candidate number k of the target: the name itself, then -002, -003, ...
Numbered(targetName, k) == IF k = 1 THEN targetName ELSE candidateName(targetName, k)

\* the characters of the names that occur
TextOf(name) ==
    CASE name = "p.jpg" -> <<"p", ".", "j", "p", "g">>
      [] name = "q.jpg" -> <<"q", ".", "j", "p", "g">>
      [] name = "others.txt" -> <<"o", "t", "h", "e", "r", "s", ".", "t", "x", "t">>
      [] name = "notes.txt" -> <<"n", "o", "t", "e", "s", ".", "t", "x", "t">>
      [] name = ".DS_Store" -> <<".", "D", "S", "_", "S", "t", "o", "r", "e">>
      [] name = "Thumbs.db" -> <<"T", "h", "u", "m", "b", "s", ".", "d", "b">>

MediaListName == "others.txt"

\* what the folder holds: the files, and the media list file
EntryNames(f, dir) ==
    {FileNameOf(x.name, x.k) : x \in {y \in DOMAIN f.files : y.dir = dir}}
       \cup (IF Has(f.lists, dir) THEN {FileNameOf(MediaListName, 1)} ELSE {})

EntryText(n) == Numbered(TextOf(n.name), n.k)

\* f.Readdirnames(2): at most two of the names, in directory order, which
\* is any order
ReaddirCount == 2

Readdirnames(f, dir, n) ==
    LET E == EntryNames(f, dir)
        m == IF Cardinality(E) < n THEN Cardinality(E) ELSE n
    IN  {s \in [1..m -> E] : \A i, j \in 1..m : s[i] = s[j] => i = j}

\* the loop over the names that were read: false at the first name that
\* is neither hidden nor Thumbs.db
RECURSIVE delFolderLoop(_, _)
delFolderLoop(names, delFolder) ==
    IF names = <<>> THEN delFolder
    ELSE LET name == EntryText(Head(names))
         IN  IF Len(name) > 0 /\ name[1] # "." /\ name # TextOf("Thumbs.db")
             THEN FALSE
             ELSE delFolderLoop(Tail(names), TRUE)

osRemoveAll(f, dir) ==
    [f EXCEPT !.dirs = @ \ {dir},
              !.files = [x \in {y \in DOMAIN @ : y.dir # dir} |-> @[x]],
              !.lists = Del(@, dir)]

\* the end of the loop over the items; for a collection that is gone, the
\* rest of deleteCollection: the record, and the folder if it is empty
PruneCollectionEnd ==
    /\ orch.phase = "prune"
    /\ orch.cur # Nil
    /\ orch.items = {}
    /\ LET a == orch.cur.acct
           dbc == orch.cur.coll
       IN  IF orch.deleting
           THEN /\ db' = dbDeleteCollection(db, a, dbc.ID)
                /\ \E names \in Readdirnames(fs, dbc.DirPath, ReaddirCount) :
                      fs' = IF dbc.DirPath \in fs.dirs
                               /\ delFolderLoop(names, Len(names) = 0)
                            THEN osRemoveAll(fs, dbc.DirPath)
                            ELSE fs
           ELSE UNCHANGED <<db, fs>>
    /\ orch' = [orch EXCEPT !.cur = Nil, !.deleting = FALSE]
    /\ UNCHANGED <<remote, reg, pc, loc, pool, faults, hist>>

\* return nil
PruneEnd ==
    /\ orch.phase = "prune"
    /\ orch.cur = Nil /\ orch.todo = <<>> /\ orch.accts = <<>>
    /\ orch' = [orch EXCEPT !.phase = "idle", !.result = "ok"]
    /\ UNCHANGED <<db, fs, remote, reg, pc, loc, pool, faults, hist>>

Prune ==
    \/ PruneBegin
    \/ PruneAccount
    \/ PruneCollection
    \/ \E i \in ItemIds, pick \in CollIds : PruneItem(i, pick)
    \/ PruneCollectionEnd
    \/ PruneEnd

(***************************************************************************)
(* The index on its own: save-item, delete-item and attach in any order,   *)
(* on the items of two accounts.                                           *)
(***************************************************************************)
\* the records saveItem is handed: a digest (or none, which bolt refuses)
\* and the collections the item is in
ItemArgs(id) ==
    {[ID |-> id, Name |-> "p.jpg", FileName |-> FileNameOf("p.jpg", 1),
      FilePath |-> FilePathOf(DirPathOf(MainAcct, "Album", 1), "p.jpg", 1),
      Checksum |-> h, ETag |-> "e1", Collections |-> cs] :
        h \in Sums \cup {NoSum}, cs \in SUBSET {"A"}}

InitDB ==
    /\ db = EmptyDB
    /\ fs = EmptyFS
    /\ remote = [colls |-> Empty, name |-> Empty, etag |-> Empty, content |-> Empty]
    /\ reg = EmptyReg
    /\ pc = [w \in Workers |-> "idle"]
    /\ loc = [w \in Workers |-> LocInit]
    /\ pool = {}
    /\ orch = OrchInit
    /\ faults = 0
    /\ hist = HistInit

SaveItemOp(a, id) ==
    /\ \E item \in ItemArgs(id) :
          /\ db' = saveItem(db, a, id, item)
          /\ hist' = [hist EXCEPT !.op =
                        IF loadItem(db, a, id) # Nil /\ ~saveItemFails(db, a, id, item)
                           /\ loadItem(db, a, id).Checksum \notin {NoSum, item.Checksum}
                        THEN "resave" ELSE "save"]
    /\ UNCHANGED <<fs, remote, reg, pc, loc, pool, orch, faults>>

DeleteItemOp(a, id) ==
    /\ loadItem(db, a, id) # Nil
    /\ db' = dbDeleteItem(db, a, id)
    /\ hist' = [hist EXCEPT !.op = "delete"]
    /\ UNCHANGED <<fs, remote, reg, pc, loc, pool, orch, faults>>

AttachOp(a, id) ==
    /\ db' = saveItemToCollection(db, a, id, "A")
    /\ hist' = [hist EXCEPT !.op = "attach"]
    /\ UNCHANGED <<fs, remote, reg, pc, loc, pool, orch, faults>>

\* two items of one account and one of the same id in another account
DBKeys == {<<"gp:u1", "p">>, <<"gp:u1", "q">>, <<"gp:u2", "p">>}

NextDB == \E k \in DBKeys :
             SaveItemOp(k[1], k[2]) \/ DeleteItemOp(k[1], k[2]) \/ AttachOp(k[1], k[2])

SpecDB == InitDB /\ [][NextDB]_vars

Occurrences(list, x) == Cardinality({n \in 1..Len(list) : list[n] = x})

MaxReserveCalls == 3
MaxPresent == 2

AlbumDir == DirPathOf("gp:u1", "Album", 1)
AcctDir == [acct |-> AcctPath("gp:u1"), name |-> "", k |-> 0]

InitReserve ==
    /\ db = EmptyDB
    /\ \E n \in 0..MaxPresent, isdir \in BOOLEAN :
          /\ fs = [files |-> IF isdir THEN Empty
                             ELSE [f \in {FilePathOf(AlbumDir, "p.jpg", k) : k \in 1..n} |-> "X"],
                   dirs |-> IF isdir THEN {DirPathOf("gp:u1", "Album", k) : k \in 1..n}
                            ELSE {AlbumDir},
                   lists |-> Empty]
          /\ orch = [OrchInit EXCEPT !.calls = MaxReserveCalls, !.isdir = isdir]
    /\ remote = [colls |-> Empty, name |-> Empty, etag |-> Empty, content |-> Empty]
    /\ reg = EmptyReg
    /\ pc = [w \in Workers |-> "idle"]
    /\ loc = [w \in Workers |-> LocInit]
    /\ pool = {}
    /\ faults = 0
    /\ hist = HistInit

ReserveStart(p) ==
    /\ pc[p] = "idle"
    /\ orch.calls > 0
    /\ orch' = [orch EXCEPT !.calls = @ - 1]
    /\ loc' = [loc EXCEPT ![p] =
                  IF orch.isdir THEN ReserveCall(@, AcctDir, "Album", TRUE, "r_done")
                  ELSE ReserveCall(@, AlbumDir, "p.jpg", FALSE, "r_done")]
    /\ pc' = [pc EXCEPT ![p] = "r_enter"]
    /\ UNCHANGED <<db, fs, remote, reg, pool, faults, hist>>

ReserveDone(p) ==
    /\ pc[p] = "r_done"
    /\ LET l == loc[p]
           n == IF Has(hist.ret, l.rres) THEN hist.ret[l.rres] ELSE 0
       IN  hist' = [hist EXCEPT !.ret = Put(@, l.rres, n + 1),
                                !.retMissing = @ \/ ~fileExists(fs, TargetPath(l, l.rres.k))]
    /\ loc' = [loc EXCEPT ![p] = LocInit]
    /\ pc' = [pc EXCEPT ![p] = "idle"]
    /\ UNCHANGED <<db, fs, remote, reg, pool, orch, faults>>

NextReserve == \E p \in Workers : ReserveStart(p) \/ Reserve(p) \/ ReserveDone(p)

SpecReserve == InitReserve /\ [][NextReserve]_vars

(***************************************************************************)
(* One Store run of three workers on an empty repository in which item p   *)
(* is listed by three collections, so that three contexts carry one key.   *)
(***************************************************************************)
\* two collections of one account; the two items have the same bytes or
\* not, and the same name or not
RemoteInits ==
    {[colls |-> cs, name |-> nm, etag |-> [i \in ItemIds |-> "e1"], content |-> ct] :
        cs \in [{<<MainAcct, "A">>, <<MainAcct, "B">>} -> SUBSET ItemIds],
        nm \in {[p |-> "p.jpg", q |-> "q.jpg"], [p |-> "p.jpg", q |-> "p.jpg"]},
        ct \in {[p |-> "X", q |-> "X"], [p |-> "X", q |-> "Y"]}}

\* p in all three collections, with or without q beside it in the first
ContendAll ==
    {[colls |-> (<<MainAcct, "A">> :> ({"p"} \cup Sa)) @@ (<<MainAcct, "B">> :> {"p"})
                   @@ (<<MainAcct, "C">> :> {"p"}),
      name |-> nm, etag |-> [i \in ItemIds |-> "e1"], content |-> ct] :
        Sa \in {{}, {"q"}},
        nm \in {[p |-> "p.jpg", q |-> "q.jpg"], [p |-> "p.jpg", q |-> "p.jpg"]},
        ct \in {[p |-> "X", q |-> "X"], [p |-> "X", q |-> "Y"]}}

\* where q is in no collection its name and bytes are never read: one
\* such listing is enough
ContendInits ==
    {r \in ContendAll :
        \/ \E k \in DOMAIN r.colls : "q" \in r.colls[k]
        \/ (r.name["q"] = "q.jpg" /\ r.content["q"] = "Y")}

InitContend ==
    /\ db = EmptyDB
    /\ fs = EmptyFS
    /\ remote \in ContendInits
    /\ reg = EmptyReg
    /\ pc = [w \in Workers |-> "idle"]
    /\ loc = [w \in Workers |-> LocInit]
    /\ pool = {}
    /\ orch = [OrchInit EXCEPT !.configured = <<MainAcct>>,
                               !.workers = Workers, !.runs = 1]
    /\ faults = 0
    /\ hist = HistInit

NextStore ==
    \/ StoreBegin
    \/ \E a \in Accts, cid \in CollIds : processCollection(a, cid)
    \/ \E w \in Workers : Receive(w) \/ ProcessItem(w)
    \/ StoreEnd

SpecContend == InitContend /\ [][NextStore]_vars

\* the worker is between claiming and releasing its item's key
InBody(w) == pc[w] \notin {"idle", "claim", "claim_wait"}

C1_Mutex ==
    \A w1, w2 \in Workers :
        (w1 # w2 /\ InBody(w1) /\ InBody(w2)) => MapKey(loc[w1].ctx) # MapKey(loc[w2].ctx)

C1_Step ==
    \A w \in Workers :
        /\ (pc[w] = "claim_wait" /\ pc'[w] # "claim_wait")
              => (pc'[w] = "claim" /\ loc[w].wait = NoWait)
        /\ (pc[w] = "claim" /\ Has(reg.downloading, MapKey(loc[w].ctx)))
              => (pc'[w] = "claim" \/ (pc'[w] = "claim_wait" /\ loc'[w].wait # NoWait))
        /\ (~InBody(w) /\ InBody(w)')
              => (pc[w] = "claim" /\ ~Has(reg.downloading, MapKey(loc[w].ctx)))

\* C1: at any moment of Store at most one worker is between claiming and
\* releasing the entry of one provider:item-id key; a worker that finds
\* the key taken waits for the holder's signal and looks the key up again
\* before it claims it.
C1_OneWorkerPerItem == [](C1_Mutex) /\ [][C1_Step]_vars

\* one worker holds the key of p and the two others wait for its signal
C1_Witness ==
    \E w1, w2, w3 \in Workers :
        /\ w1 # w2 /\ w2 # w3 /\ w1 # w3
        /\ InBody(w1)
        /\ pc[w2] = "claim_wait" /\ loc[w2].wait = [kind |-> "dl", owner |-> w1]
        /\ pc[w3] = "claim_wait" /\ loc[w3].wait = [kind |-> "dl", owner |-> w1]

Committed(k) == Has(db.items, k) /\ db.items[k].Checksum # NoSum

FilesWith(c) == {f \in DOMAIN fs.files : fs.files[f] = c}

\* C3: once two new items of identical content, processed concurrently,
\* have both committed: one file with that content is on disk, both
\* records have the same file-path, and the checksum's list has both.
C3_OneCopyOfSameContent ==
    LET kp == <<MainAcct, "p">>
        kq == <<MainAcct, "q">>
    IN  (remote.content["p"] = remote.content["q"] /\ Committed(kp) /\ Committed(kq))
        => /\ Cardinality(FilesWith(remote.content["p"])) = 1
           /\ db.items[kp].FilePath = db.items[kq].FilePath
           /\ {kp, kq} \subseteq Range(itemsWithChecksum(db, Sha256(remote.content["p"])))

\* the second of the two waited for the checksum's lock, found the first
\* one's record, and has committed
C3_Witness ==
    \E w \in Workers :
        /\ pc[w] = "hash_release"
        /\ loc[w].hwaited
        /\ Len(loc[w].same) > 0
        /\ ~loc[w].err
        /\ Committed(<<MainAcct, "p">>) /\ Committed(<<MainAcct, "q">>)

(***************************************************************************)
(* Store and Prune runs one after the other, with the provider changing    *)
(* in between: one run of two workers, or MaxRuns runs of one worker.      *)
(***************************************************************************)
MaxRuns == 2
MaxPrunes == 1
MaxChanges == 1

InitRuns ==
    /\ db = EmptyDB
    /\ fs = EmptyFS
    /\ remote \in RemoteInits
    /\ reg = EmptyReg
    /\ pc = [w \in Workers |-> "idle"]
    /\ loc = [w \in Workers |-> LocInit]
    /\ pool = {}
    /\ \E n \in 1..2 :
          orch = [OrchInit EXCEPT !.configured = <<MainAcct>>,
                                  !.workers = IF n = 1 THEN {"w1"} ELSE {"w1", "w2"},
                                  !.runs = IF n = 1 THEN MaxRuns ELSE 1,
                                  !.prunes = MaxPrunes, !.changes = MaxChanges]
    /\ faults = 0
    /\ hist = HistInit

RemoteChange ==
    \/ \E id \in ItemIds : RemoteEdit(id)
    \/ \E cid \in {"A", "B"} : RemoteList(MainAcct, cid)
    \/ \E cid \in {"A", "B"} : RemoteUnlist(MainAcct, cid)

NextRuns ==
    \/ NextStore
    \/ RemoteChange
    \/ Prune

SpecRuns == InitRuns /\ [][NextRuns]_vars

\* no Store and no Prune is running
Quiescent == orch.phase = "idle"

IndexedItems == DOMAIN db.items

\* C4: at quiescence every indexed item has a file at its file-path whose
\* SHA-256 is the item's checksum.
C4_FileMatchesChecksum ==
    Quiescent =>
        \A k \in IndexedItems :
            /\ Has(fs.files, db.items[k].FilePath)
            /\ Sha256(fs.files[db.items[k].FilePath]) = db.items[k].Checksum

\* C5: at quiescence all items listed under one checksum have the same
\* file-path.
C5_OneFilePerChecksum ==
    Quiescent =>
        \A h \in DOMAIN db.sums :
            \A x, y \in Range(db.sums[h]) \cap IndexedItems :
                db.items[x].FilePath = db.items[y].FilePath

\* C6: at quiescence, for every indexed item and every collection it is
\* in, exactly one holds: the file <C.dir>/<I.file-name> exists, or
\* <C.dir>/others.txt has a line equal to I.file-path.
C6_FileOrPointer ==
    Quiescent =>
        \A k \in IndexedItems :
            \A cid \in db.items[k].Collections :
                Has(db.colls, <<k[1], cid>>) =>
                    LET dir == db.colls[<<k[1], cid>>].DirPath
                    IN  fileExists(fs, PathJoin(dir, db.items[k].FileName))
                            # mediaListHasItem(fs, dir, db.items[k])

\* C7: at quiescence, every collection's items are exactly the indexed
\* items of its account that list the collection.
C7_MembershipBothSides ==
    Quiescent =>
        \A c \in DOMAIN db.colls :
            db.colls[c].Items =
                {k[2] : k \in {x \in IndexedItems :
                                  x[1] = c[1] /\ c[2] \in db.items[x].Collections}}

\* after a Store and a Prune that took an item out of a collection, that
\* item is still in the other collection and the other item is in both
C7_Witness ==
    /\ Quiescent
    /\ hist.detached
    /\ \E k \in IndexedItems : Cardinality(db.items[k].Collections) = 1
    /\ \E k \in IndexedItems : Cardinality(db.items[k].Collections) = 2

(***************************************************************************)
(* Store runs in which calls fail: the index, the file system and the      *)
(* download return errors.  One run of two workers with one failure, or    *)
(* MaxRuns runs of one worker with at most MaxFaults failures.             *)
(***************************************************************************)
MaxFaults == 3

\* one item alone or two in one collection, p in the second collection too
\* or not
FaultyInits ==
    {r \in RemoteInits :
        /\ "p" \in r.colls[<<MainAcct, "A">>]
        /\ r.colls[<<MainAcct, "B">>] \subseteq {"p"}
        /\ ("q" \in r.colls[<<MainAcct, "A">>]
              \/ (r.content["q"] = "Y" /\ r.name["q"] = "q.jpg"))}

InitFaulty ==
    /\ db = EmptyDB
    /\ fs = EmptyFS
    /\ remote \in FaultyInits
    /\ reg = EmptyReg
    /\ pc = [w \in Workers |-> "idle"]
    /\ loc = [w \in Workers |-> LocInit]
    /\ pool = {}
    /\ \E n \in 1..2 :
          /\ n = 1 => (remote.colls[<<MainAcct, "B">>] = {} /\ remote.name["q"] = "q.jpg")
          /\ orch = [OrchInit EXCEPT !.configured = <<MainAcct>>,
                                     !.workers = IF n = 1 THEN {"w1"} ELSE {"w1", "w2"},
                                     !.runs = IF n = 1 THEN MaxRuns ELSE 1,
                                     !.changes = IF n = 1 THEN MaxChanges ELSE 0]
          /\ faults = IF n = 1 THEN MaxFaults ELSE 1
    /\ hist = HistInit

NextFaulty ==
    \/ NextStore
    \/ \E id \in ItemIds : RemoteEdit(id)
    \/ \E w \in Workers : ProcessItemFails(w)

SpecFaulty == InitFaulty /\ [][NextFaulty]_vars

\* the file worker w made is still there: a file at that path that is not
\* the file of a record and that no other worker has made since
Leftover(w) ==
    /\ Has(fs.files, loc[w].made)
    /\ \A k \in DOMAIN db.items : db.items[k].FilePath # loc[w].made
    /\ \A v \in Workers \ {w} : loc[v].made # loc[w].made

\* the item of worker w is whole: a record and a file at its file-path with
\* the record's checksum, or no record and the file the call made is gone
WholeOrAbsent(w) ==
    LET k == <<loc[w].ctx.acct, loc[w].ctx.item>>
    IN  \/ /\ Has(db.items, k)
           /\ Has(fs.files, db.items[k].FilePath)
           /\ Sha256(fs.files[db.items[k].FilePath]) = db.items[k].Checksum
        \/ /\ ~Has(db.items, k)
           /\ ~Leftover(w)

C9_Return ==
    \A w \in Workers :
        (pc[w] # "release" /\ pc'[w] = "release" /\ loc'[w].it # NoIt)
            => WholeOrAbsent(w)'

\* C9: at the step at which processItem is through with
\* downloadAndSaveItem, with or without an error, for a new and for an
\* existing item, the item has a record and a file at its file-path with
\* the record's checksum, or it has no record and the file the call made
\* is gone.
C9_NoHalfSavedState == [][C9_Return]_vars

(***************************************************************************)
(* Store with its own goroutine: the loop over the accounts, the throttle  *)
(* channel of the walkers, the close of the context channel and the exit   *)
(* of the workers.                                                         *)
(***************************************************************************)
\* the listed collections of account a, in the provider's order
ListCollections(a) ==
    SelectSeq([n \in 1..Len(CollOrder) |-> <<a, CollOrder[n]>>],
              LAMBDA k : k \in DOMAIN remote.colls)

\* Store is called: the accounts are loaded and the workers spawned
StoreCall ==
    /\ orch.main = "idle"
    /\ orch.phase = "idle"
    /\ orch.runs > 0
    /\ orch' = [orch EXCEPT !.main = "list", !.phase = "store", !.runs = @ - 1,
                            !.integrity = FALSE, !.ai = 1]
    /\ UNCHANGED <<db, fs, remote, reg, pc, loc, pool, faults, hist>>

\* for _, ac := range accounts: ListCollections, or the end of the loop
StoreAccount ==
    /\ orch.main = "list"
    /\ IF orch.ai <= Len(orch.configured)
       THEN orch' = [orch EXCEPT !.main = "spawn",
                                 !.listed = ListCollections(orch.configured[orch.ai])]
       ELSE orch' = [orch EXCEPT !.main = "wait"]
    /\ UNCHANGED <<db, fs, remote, reg, pc, loc, pool, faults, hist>>

\* throttle <- struct{}{}; go func(listedColl): blocks while throttle is full
StoreSpawn ==
    /\ orch.main = "spawn"
    /\ orch.listed # <<>>
    /\ orch.throttle < NumCollWorkers
    /\ orch' = [orch EXCEPT !.throttle = @ + 1,
                            !.towalk = @ \cup {Head(orch.listed)},
                            !.spawned = @ \cup {Head(orch.listed)},
                            !.listed = Tail(@)]
    /\ UNCHANGED <<db, fs, remote, reg, pc, loc, pool, faults, hist>>

\* the end of the loop over the account's collections
StoreSpawned ==
    /\ orch.main = "spawn"
    /\ orch.listed = <<>>
    /\ orch' = [orch EXCEPT !.main = "fill", !.fill = 0]
    /\ UNCHANGED <<db, fs, remote, reg, pc, loc, pool, faults, hist>>

\* for i := 0; i < cap(throttle); i++ { throttle <- struct{}{} }
StoreFill ==
    /\ orch.main = "fill"
    /\ orch.fill < NumCollWorkers
    /\ orch.throttle < NumCollWorkers
    /\ orch' = [orch EXCEPT !.throttle = @ + 1, !.fill = @ + 1]
    /\ UNCHANGED <<db, fs, remote, reg, pc, loc, pool, faults, hist>>

\* the fill loop is through: on to the next account
StoreFilled ==
    /\ orch.main = "fill"
    /\ orch.fill = NumCollWorkers
    /\ orch' = [orch EXCEPT !.main = "list", !.ai = @ + 1]
    /\ UNCHANGED <<db, fs, remote, reg, pc, loc, pool, faults, hist>>

\* defer func() { <-throttle }(): the walker of collection k returns
WalkerReturn(k) ==
    /\ k \in orch.spawned \ (orch.towalk \cup orch.returned)
    /\ k \notin Walking
    /\ orch.throttle > 0
    /\ orch' = [orch EXCEPT !.throttle = @ - 1, !.returned = @ \cup {k}]
    /\ UNCHANGED <<db, fs, remote, reg, pc, loc, pool, faults, hist>>

\* a variant that closes the channel without collWg.Wait()
StoreCloseNoWait ==
    /\ orch.main = "wait"
    /\ orch' = [orch EXCEPT !.main = "drain", !.closed = TRUE]
    /\ UNCHANGED <<db, fs, remote, reg, pc, loc, pool, faults, hist>>

\* collWg.Wait(); close(ctxChan)
StoreClose ==
    /\ orch.main = "wait"
    /\ pool = {}
    /\ orch' = [orch EXCEPT !.main = "drain", !.closed = TRUE]
    /\ UNCHANGED <<db, fs, remote, reg, pc, loc, pool, faults, hist>>

\* for itemCtx := range ctxChan ends on the closed channel
WorkerExit(w) ==
    /\ pc[w] = "idle"
    /\ w \in orch.workers
    /\ orch.closed
    /\ Goto(w, "exited")
    /\ UNCHANGED <<db, fs, remote, reg, loc, pool, orch, faults, hist>>

\* workerWg.Wait(); return nil
StoreReturn ==
    /\ orch.main = "drain"
    /\ \A w \in orch.workers : pc[w] = "exited"
    /\ orch' = [orch EXCEPT !.main = "returned", !.phase = "idle"]
    /\ UNCHANGED <<db, fs, remote, reg, pc, loc, pool, faults, hist>>

Orchestrator ==
    \/ StoreCall
    \/ StoreAccount
    \/ StoreSpawn
    \/ StoreSpawned
    \/ StoreFill
    \/ StoreFilled
    \/ StoreClose
    \/ StoreReturn

Walker(k) ==
    \/ processCollection(k[1], k[2])
    \/ WalkerReturn(k)

Worker(w) ==
    \/ Receive(w)
    \/ ProcessItem(w)
    \/ WorkerExit(w)

CollKeys == Accts \X CollIds

\* the listings of the second account: no collection, an empty one, or
\* one that lists p
SecondAcct == {<<>>} \cup {(<<"gp:u2", "C">> :> S) : S \in {{}, {"p"}}}

\* one account with every listing of RemoteInits for one worker and the
\* listings where the two items meet for two workers; two accounts with
\* one item in the first
LiveInits ==
    {[remote |-> r, configured |-> <<MainAcct>>, workers |-> {"w1"}] :
        r \in {x \in RemoteInits : x.name["q"] = "q.jpg"}}
    \cup
    {[remote |-> r, configured |-> <<MainAcct>>, workers |-> {"w1", "w2"}] :
        r \in {x \in RemoteInits : /\ x.colls[<<MainAcct, "A">>] = {"p", "q"}
                                   /\ x.colls[<<MainAcct, "B">>] = {"p"}}}
    \cup
    {[remote |-> [r EXCEPT !.colls = @ @@ more],
      configured |-> <<MainAcct, "gp:u2">>, workers |-> ws] :
        r \in {x \in RemoteInits : /\ x.colls[<<MainAcct, "A">>] = {"p"}
                                   /\ x.colls[<<MainAcct, "B">>] = {}
                                   /\ x.name["q"] = "q.jpg"
                                   /\ x.content["q"] = "Y"},
        more \in SecondAcct,
        ws \in {{"w1"}, {"w1", "w2"}}}

InitLive ==
    /\ db = EmptyDB
    /\ fs = EmptyFS
    /\ reg = EmptyReg
    /\ pc = [w \in Workers |-> "idle"]
    /\ loc = [w \in Workers |-> LocInit]
    /\ pool = {}
    /\ \E i \in LiveInits :
          /\ remote = i.remote
          /\ orch = [OrchInit EXCEPT !.configured = i.configured,
                                     !.workers = i.workers, !.runs = 1]
    /\ faults = 0
    /\ hist = HistInit

NextLive ==
    \/ Orchestrator
    \/ \E k \in CollKeys : Walker(k)
    \/ \E w \in Workers : Worker(w)

\* every goroutine that can take a step eventually takes one
SpecLive ==
    /\ InitLive
    /\ [][NextLive]_vars
    /\ WF_vars(Orchestrator)
    /\ \A k \in CollKeys : WF_vars(Walker(k))
    /\ \A w \in Workers : WF_vars(Worker(w))

\* C10: Store eventually returns, for one account and for several, for
\* any number of collections, items and workers.
C10_StoreReturns == <>(orch.main = "returned")

(***************************************************************************)
(* One Store of a single worker over three collections, then a change of   *)
(* what the provider lists, then Prune up to MaxPruneRuns times: over that *)
(* listing, or with one collection emptied in between.                     *)
(***************************************************************************)
MaxPruneRuns == 2

\* p in at least one of the three collections, q in any of the first two
PruneAll ==
    {[colls |-> (<<MainAcct, "A">> :> ((IF "A" \in Sp THEN {"p"} ELSE {})
                                        \cup (IF "A" \in Sq THEN {"q"} ELSE {})))
                @@ (<<MainAcct, "B">> :> ((IF "B" \in Sp THEN {"p"} ELSE {})
                                           \cup (IF "B" \in Sq THEN {"q"} ELSE {})))
                @@ (<<MainAcct, "C">> :> (IF "C" \in Sp THEN {"p"} ELSE {})),
      name |-> nm, etag |-> [i \in ItemIds |-> "e1"], content |-> ct] :
        Sp \in (SUBSET CollIds) \ {{}}, Sq \in SUBSET {"A", "B"},
        nm \in {[p |-> "p.jpg", q |-> "q.jpg"], [p |-> "p.jpg", q |-> "p.jpg"]},
        ct \in {[p |-> "X", q |-> "X"], [p |-> "X", q |-> "Y"]}}

PruneInits ==
    {r \in PruneAll :
        \/ \E k \in DOMAIN r.colls : "q" \in r.colls[k]
        \/ (r.name["q"] = "q.jpg" /\ r.content["q"] = "Y")}

InitPrune ==
    /\ db = EmptyDB
    /\ fs = EmptyFS
    /\ remote \in PruneInits
    /\ reg = EmptyReg
    /\ pc = [w \in Workers |-> "idle"]
    /\ loc = [w \in Workers |-> LocInit]
    /\ pool = {}
    /\ orch = [OrchInit EXCEPT !.configured = <<MainAcct>>, !.workers = {"w1"},
                               !.runs = 1, !.changes = 2, !.prunes = MaxPruneRuns]
    /\ faults = 0
    /\ hist = HistInit

\* processItem of the only worker: it never waits for another
ProcessItemAlone(w) ==
    \/ ClaimItem(w)
    \/ LoadItem(w)
    \/ Member(w)
    \/ Attach(w)
    \/ Integrity(w)
    \/ DownloadMkdir(w)
    \/ ReserveEnter(w)
    \/ ReserveLoop(w)
    \/ ReserveCreate(w)
    \/ ReserveRelease(w)
    \/ DownloadReserved(w)
    \/ DownloadAttempt(w)
    \/ HashLock(w)
    \/ Dedup(w)
    \/ DedupRemove(w)
    \/ DedupList(w)
    \/ DedupAttach(w)
    \/ Commit(w)
    \/ HashRelease(w)
    \/ ReleaseItem(w)

StoreAloneRuns ==
    \/ \E k \in DOMAIN remote.colls : processCollection(k[1], k[2])
    \/ Receive("w1")
    \/ ProcessItemAlone("w1")
    \/ StoreEnd

StoreAlone ==
    \/ StoreBegin
    \/ StoreAloneRuns

\* the provider changes what it lists before the first Prune
ListingChange ==
    /\ orch.prunes = MaxPruneRuns
    /\ orch.changes = 2
    /\ \E cid \in CollIds : RemoteList(MainAcct, cid) \/ RemoteUnlist(MainAcct, cid)

\* after that change and a Prune, a collection is listed without items
ListingEmptied ==
    /\ orch.prunes < MaxPruneRuns
    /\ orch.changes = 1
    /\ \E cid \in CollIds :
          /\ RemoteList(MainAcct, cid)
          /\ remote'.colls[<<MainAcct, cid>>] = {}

\* Prune is run on a repository that Store has filled
NextPrune ==
    \/ StoreAlone
    \/ ListingChange
    \/ ListingEmptied
    \/ (orch.runs = 0 /\ Prune)

SpecPrune == InitPrune /\ [][NextPrune]_vars

\* Prune returns nil at this step
Lines(f, dir) == IF Has(f.lists, dir) THEN Range(f.lists[dir]) ELSE {}

PKey == <<MainAcct, "p">>

PruneReturnsNil == orch.phase = "prune" /\ orch'.phase = "idle" /\ orch'.result = "ok"

\* every collection of the index is listed, and so is each of its items
OnlyListed ==
    \A c \in DOMAIN db.colls :
        /\ c \in DOMAIN remote.colls
        /\ db.colls[c].Items \subseteq remote.colls[c]

\* C16: when Prune returns without error, every collection left in the
\* index is listed by the provider and every item id in its item set is
\* listed in that collection.
C16_PruneLeavesOnlyListed == [][PruneReturnsNil => OnlyListed']_vars

\* the collections of item k2 in which the provider still lists it: Prune
\* leaves the item in these
Staying(d, k2) ==
    {c \in d.items[k2].Collections :
        /\ Has(remote.colls, <<k2[1], c>>)
        /\ k2[2] \in remote.colls[<<k2[1], c>>]}

\* item k2 has its file: a file at its file-path, and each collection it
\* stays in holds that file or a line with its path
Backed(d, f, k2) ==
    /\ Has(f.files, d.items[k2].FilePath)
    /\ \A c \in Staying(d, k2) :
          /\ Has(d.colls, <<k2[1], c>>)
          /\ \/ d.items[k2].FilePath.dir = d.colls[<<k2[1], c>>].DirPath
             \/ mediaListHasItem(f, d.colls[<<k2[1], c>>].DirPath, d.items[k2])

\* a step of Prune that deletes item k leaves every item that shared k's
\* file and checksum with a file
C17_Step ==
    \A k \in DOMAIN db.items :
        (orch.phase = "prune" /\ ~Has(db'.items, k)) =>
            \A k2 \in DOMAIN db.items \ {k} :
                (/\ db.items[k2].FilePath = db.items[k].FilePath
                 /\ db.items[k2].Checksum = db.items[k].Checksum
                 /\ Has(fs.files, db.items[k].FilePath))
                    => (Has(db'.items, k2) /\ Backed(db', fs', k2))

\* C17: when Prune deletes an item whose file another item of the same
\* checksum shares, the file is kept: each such item still has a
\* file-path with a file, and its collections hold the file or refer to it.
C17_SharedFileSurvives == [][C17_Step]_vars

\* the lines of the media list file of directory dir


\* Prune has come to collection A, which no longer lists p; p is in A, B
\* and C, the provider lists it in B and C, and its file is in A's folder
C18_Pre ==
    /\ orch.phase = "prune"
    /\ orch.cur # Nil
    /\ orch.cur.coll.ID = "A"
    /\ "p" \in orch.items
    /\ Has(db.items, PKey)
    /\ db.items[PKey].Collections = {"A", "B", "C"}
    /\ \A c \in {"B", "C"} : Has(remote.colls, <<MainAcct, c>>)
                               /\ "p" \in remote.colls[<<MainAcct, c>>]
    /\ db.items[PKey].FilePath = PathJoin(orch.cur.coll.DirPath, db.items[PKey].FileName)
    /\ Has(fs.files, db.items[PKey].FilePath)

\* what deleteItemFromCollection(p, A) leaves, with the file moved to D
C18_Post(R, old) ==
    /\ R.err = ""
    /\ Has(R.db.items, PKey)
    /\ LET np == R.db.items[PKey].FilePath
           dirOf == [c \in {"A", "B", "C"} |-> R.db.colls[<<MainAcct, c>>].DirPath]
       IN  /\ np.dir \in {dirOf["B"], dirOf["C"]}
           /\ DOMAIN R.fs.files = (DOMAIN fs.files \ {old}) \cup {np}
           /\ np # old
           /\ R.fs.files[np] = fs.files[old]
           /\ \A c \in {"B", "C"} :
                 IF np.dir = dirOf[c]
                 THEN {np, old} \cap Lines(R.fs, dirOf[c]) = {}
                 ELSE np \in Lines(R.fs, dirOf[c]) /\ old \notin Lines(R.fs, dirOf[c])
           /\ {np, old} \cap Lines(R.fs, dirOf["A"]) = {}
           /\ R.db.items[PKey].Collections = {"B", "C"}
           /\ "p" \notin R.db.colls[<<MainAcct, "A">>].Items

\* C18: p is in A, B and C with its file in A and is now listed only in B
\* and C.  Prune moves the file to one of B and C, whichever the map
\* iteration picks: p's file-path is the new path, the destination's media
\* list has no line for p, the other's has the new path and not the old,
\* A has neither file nor line, p is in {B, C} and A's items lack p.
C18_MoveOutOfUnlisted ==
    C18_Pre =>
        \A pick \in CollIds :
            C18_Post(deleteItemFromCollection(
                         [St(db, fs, "") EXCEPT !.dbi = db.items[PKey]],
                         MainAcct, orch.cur.coll, pick),
                     db.items[PKey].FilePath)

\* Prune has come to the only collection of p, which no longer lists it;
\* p has its file and no other item has p's checksum
C19_Pre ==
    /\ orch.phase = "prune"
    /\ orch.cur # Nil
    /\ "p" \in orch.items
    /\ Has(db.items, PKey)
    /\ db.items[PKey].Collections = {orch.cur.coll.ID}
    /\ Has(fs.files, db.items[PKey].FilePath)
    /\ \A k \in DOMAIN db.items \ {PKey} : db.items[k].Checksum # db.items[PKey].Checksum

C19_Post(R, old) ==
    /\ R.err = ""
    /\ ~Has(R.db.items, PKey)
    /\ ~Has(R.fs.files, old.FilePath)
    /\ "p" \notin R.db.colls[<<MainAcct, orch.cur.coll.ID>>].Items
    /\ ~Has(R.db.sums, old.Checksum)

\* C19: p is in one collection only, no other item has its checksum, and
\* the provider no longer lists it.  Prune unlinks p's file, deletes p from
\* the index and from the collection's items, and deletes the bucket of
\* p's checksum, which has become empty.
C19_LastCopyDeleted ==
    C19_Pre =>
        \A pick \in CollIds :
            C19_Post(deleteItemFromCollection(
                         [St(db, fs, "") EXCEPT !.dbi = db.items[PKey]],
                         MainAcct, orch.cur.coll, pick),
                     db.items[PKey])

\* Prune runs for the second time, the first has returned nil and the
\* provider lists what it listed then
SecondPrune ==
    /\ orch.phase = "prune"
    /\ orch.prunes = MaxPruneRuns - 2
    /\ orch.changes > 0
    /\ orch.result = "ok"

\* C13: a second Prune over what the provider listed for the first leaves
\* the index, the files and the media lists as the first left them.
C13_PruneIdempotent == [][SecondPrune => (db' = db /\ fs' = fs)]_vars

(***************************************************************************)
(* The process is killed inside movePhysicalFile, between os.Rename and    *)
(* the first rewrite of a media list, and the program is started again:    *)
(* Store and Prune once each, in either order, over what the provider      *)
(* listed at the time of the kill.                                         *)
(***************************************************************************)
\* movePhysicalFile down to os.Rename: the name reserved in the destination
\* and the file under it
MoveUpToRename(S, originColl, origin, dest, destAcctKey, pick) ==
    LET cands == {c \in dest.Collections : c # originColl.ID}
        destCollID == IF pick \in cands THEN pick ELSE CHOOSE c \in cands : TRUE
        destColl == loadCollection(S.db, destAcctKey, destCollID)
        r == reserveUniqueFilename(S.fs, destColl.DirPath, dest.Name, FALSE)
        newFilePath == PathJoin(destColl.DirPath, r.name)
    IN  IF cands = {} THEN [S EXCEPT !.err = "err"]
        ELSE IF destColl = Nil THEN [S EXCEPT !.err = "panic"]
        ELSE IF destColl.DirPath \notin S.fs.dirs THEN [S EXCEPT !.err = "err"]
        ELSE IF ~Has(r.fs.files, origin.FilePath)
        THEN [S EXCEPT !.fs = r.fs, !.path = newFilePath, !.err = "err"]
        ELSE [S EXCEPT !.fs = osRename(r.fs, origin.FilePath, newFilePath),
                       !.path = newFilePath]

\* deleteItemFromCollection takes the branch that moves the file and the
\* process dies after the rename; the next process starts idle
PruneItemCrash(itemID, pick) ==
    /\ orch.phase = "prune"
    /\ orch.cur # Nil
    /\ itemID \in orch.items
    /\ hist.crash = Nil
    /\ LET a == orch.cur.acct
           item == loadItem(db, a, itemID)
           R == MoveUpToRename(St(db, fs, ""), orch.cur.coll, item, item, a, pick)
       IN  /\ item # Nil
           /\ Cardinality(item.Collections) > 1
           /\ fileExists(fs, PathJoin(orch.cur.coll.DirPath, item.FileName))
           /\ R.err = ""
           /\ fs' = R.fs
           /\ hist' = [hist EXCEPT !.crash = [item |-> itemID, old |-> item.FilePath,
                                              new |-> R.path]]
    /\ orch' = [orch EXCEPT !.phase = "idle", !.accts = <<>>, !.todo = <<>>,
                            !.cur = Nil, !.items = {}, !.deleting = FALSE,
                            !.runs = 1, !.prunes = 1, !.changes = 0]
    /\ UNCHANGED <<db, remote, reg, pc, loc, pool, faults>>

\* p in two collections or three, q with another name in at most one
CrashInits ==
    {r \in PruneAll : /\ r.name["q"] = "q.jpg"
                      /\ Cardinality({k \in DOMAIN r.colls : "p" \in r.colls[k]}) > 1
                      /\ Cardinality({k \in DOMAIN r.colls : "q" \in r.colls[k]}) < 2}

InitCrash ==
    /\ db = EmptyDB
    /\ fs = EmptyFS
    /\ remote \in CrashInits
    /\ reg = EmptyReg
    /\ pc = [w \in Workers |-> "idle"]
    /\ loc = [w \in Workers |-> LocInit]
    /\ pool = {}
    /\ orch = [OrchInit EXCEPT !.configured = <<MainAcct>>, !.workers = {"w1"},
                               !.runs = 1, !.changes = 1, !.prunes = 1]
    /\ faults = 0
    /\ hist = HistInit

\* the provider changes what it lists, before the kill only
ListingChangeOnce ==
    /\ hist.crash = Nil
    /\ \E cid \in CollIds : RemoteList(MainAcct, cid) \/ RemoteUnlist(MainAcct, cid)

NextCrash ==
    \/ StoreAlone
    \/ ListingChangeOnce
    \/ (db # EmptyDB /\ Prune)
    \/ \E i \in ItemIds, pick \in CollIds : PruneItemCrash(i, pick)

SpecCrash == InitCrash /\ [][NextCrash]_vars

\* the first Store or Prune of the new process returns
FirstRunReturns ==
    /\ hist.crash # Nil
    /\ orch.runs + orch.prunes = 1
    /\ orch.phase # "idle"
    /\ orch'.phase = "idle"

\* the moved item's file-path names a file, and in the media lists of its
\* collections every line with the old or the new path is that file-path
Converged ==
    LET k == <<MainAcct, hist.crash.item>>
    IN  Has(db.items, k) =>
          /\ Has(fs.files, db.items[k].FilePath)
          /\ \A c \in db.items[k].Collections :
                Has(db.colls, <<MainAcct, c>>) =>
                   \A line \in Lines(fs, db.colls[<<MainAcct, c>>].DirPath) :
                      line \in {hist.crash.old, hist.crash.new}
                         => line = db.items[k].FilePath

\* C11: after a kill between the rename of the Move Protocol and the
\* rewriting of media lists and records, the next run over the same listing
\* leaves the moved item with a file-path that names an existing file and
\* with every media-list line for it equal to that path.
C11_ReconvergesAfterCrash == [][FirstRunReturns => Converged']_vars

(***************************************************************************)
(* Store twice by two workers over one listing that does not change.       *)
(***************************************************************************)
\* one collection that lists three items of one name
ThreeOfOneName ==
    {[colls |-> (<<MainAcct, "A">> :> {"p", "q", "r"}),
      name |-> [i \in {"p", "q", "r"} |-> "p.jpg"],
      etag |-> [i \in {"p", "q", "r"} |-> "e1"],
      content |-> [p |-> "X", q |-> "Y", r |-> c]] : c \in Contents}

\* two workers on two items, or three workers on three
InitTwice ==
    /\ db = EmptyDB
    /\ fs = EmptyFS
    /\ remote \in RemoteInits \cup ThreeOfOneName
    /\ reg = EmptyReg
    /\ pc = [w \in Workers |-> "idle"]
    /\ loc = [w \in Workers |-> LocInit]
    /\ pool = {}
    /\ orch = [OrchInit EXCEPT !.configured = <<MainAcct>>,
                               !.workers = IF remote \in ThreeOfOneName
                                           THEN Workers ELSE {"w1", "w2"},
                               !.runs = 2]
    /\ faults = 0
    /\ hist = HistInit

SpecTwice == InitTwice /\ [][NextStore]_vars

\* the second Store is running
SecondStore == orch.phase = "store" /\ orch.runs = 0

\* C12: a second Store over an unchanged listing downloads nothing and
\* leaves the files, the media lists and the index as the first left them,
\* whatever the interleaving of the workers of either run.
C12_StoreIdempotent ==
    [][SecondStore => /\ db' = db
                      /\ fs' = fs
                      /\ \A w \in Workers : pc'[w] \notin {"dl_mkdir", "dl_attempt"}]_vars

(***************************************************************************)
(* Store, two changes at the provider (an item edited, a collection listed *)
(* with other items or not listed any more), and Store again, by one       *)
(* worker.                                                                 *)
(***************************************************************************)
InitKeep ==
    /\ db = EmptyDB
    /\ fs = EmptyFS
    /\ remote \in FaultyInits
    /\ reg = EmptyReg
    /\ pc = [w \in Workers |-> "idle"]
    /\ loc = [w \in Workers |-> LocInit]
    /\ pool = {}
    /\ orch = [OrchInit EXCEPT !.configured = <<MainAcct>>, !.workers = {"w1"},
                               !.runs = 2, !.changes = 2]
    /\ faults = 0
    /\ hist = HistInit

NextKeep ==
    \/ StoreAlone
    \/ RemoteChange

SpecKeep == InitKeep /\ [][NextKeep]_vars

\* no collection that the provider lists has the item
NotListed(id) == \A c \in DOMAIN remote.colls : id \notin remote.colls[c]

\* the record of the item as it was, and its canonical file with its bytes
ItemKept(k) ==
    /\ Has(db'.items, k)
    /\ db'.items[k] = db.items[k]
    /\ Has(fs.files, db.items[k].FilePath) =>
          /\ Has(fs'.files, db.items[k].FilePath)
          /\ fs'.files[db.items[k].FilePath] = fs.files[db.items[k].FilePath]

\* C14: no step of Store removes or changes the record, the memberships or
\* the canonical file of an item that the provider no longer lists, nor the
\* record of a collection that it no longer lists.
C14_StoreKeepsUnlisted ==
    [][orch.phase = "store" =>
          /\ \A k \in DOMAIN db.items : NotListed(k[2]) => ItemKept(k)
          /\ \A c \in DOMAIN db.colls :
                c \notin DOMAIN remote.colls
                   => (Has(db'.colls, c) /\ db'.colls[c] = db.colls[c])]_vars

(***************************************************************************)
(* writeToMediaListFile in two steps: os.OpenFile, and then Fprintln with  *)
(* the deferred Close.  One Store by two workers.                          *)
(***************************************************************************)
\* os.MkdirAll and os.OpenFile(O_APPEND|O_CREATE|O_RDWR) of others.txt
openMediaListFile(f, dir) ==
    LET f1 == osMkdirAll(f, dir)
    IN  IF Has(f1.lists, dir) THEN f1 ELSE [f1 EXCEPT !.lists = Put(@, dir, <<>>)]

\* processItem of a stored item: the folder has neither the file nor a
\* line, and the media list is opened
MemberOpen(w) ==
    /\ pc[w] = "member"
    /\ LET c == loc[w].ctx
           li == loc[w].loaded
       IN  /\ c.coll \notin li.Collections \/ c.integrity
           /\ ~localCollectionHasItemOnDisk(fs, c.dir, li)
           /\ fs' = openMediaListFile(fs, c.dir)
    /\ Goto(w, "member_open")
    /\ UNCHANGED <<db, remote, reg, loc, pool, orch, faults, hist>>

\* the line is appended and the file closed
MemberAppend(w) ==
    /\ pc[w] = "member_open"
    /\ LET c == loc[w].ctx
           li == loc[w].loaded
       IN  /\ fs' = writeToMediaListFile(fs, c.dir, li.FilePath)
           /\ Goto(w, IF c.coll \in li.Collections THEN "integrity" ELSE "attach")
    /\ UNCHANGED <<db, remote, reg, loc, pool, orch, faults, hist>>

\* nothing to write
MemberSkip(w) ==
    /\ pc[w] = "member"
    /\ LET c == loc[w].ctx
           li == loc[w].loaded
       IN  /\ ~((c.coll \notin li.Collections \/ c.integrity)
                  /\ ~localCollectionHasItemOnDisk(fs, c.dir, li))
           /\ Goto(w, IF c.coll \in li.Collections THEN "integrity" ELSE "attach")
    /\ UNCHANGED <<db, fs, remote, reg, loc, pool, orch, faults, hist>>

\* saveToMediaListFile of a duplicate: the media list is opened
DedupListOpen(w) ==
    /\ pc[w] = "dedup_list"
    /\ fs' = openMediaListFile(fs, loc[w].ctx.dir)
    /\ Goto(w, "dedup_list_open")
    /\ UNCHANGED <<db, remote, reg, loc, pool, orch, faults, hist>>

DedupListAppend(w) ==
    /\ pc[w] = "dedup_list_open"
    /\ fs' = writeToMediaListFile(fs, loc[w].ctx.dir, loc[w].dbi.FilePath)
    /\ Goto(w, "dedup_attach")
    /\ UNCHANGED <<db, remote, reg, loc, pool, orch, faults, hist>>

ProcessItemOpening(w) ==
    \/ ClaimItem(w)
    \/ ClaimWait(w)
    \/ LoadItem(w)
    \/ MemberOpen(w)
    \/ MemberAppend(w)
    \/ MemberSkip(w)
    \/ Attach(w)
    \/ Integrity(w)
    \/ DownloadMkdir(w)
    \/ Reserve(w)
    \/ DownloadReserved(w)
    \/ DownloadAttempt(w)
    \/ HashLock(w)
    \/ HashWait(w)
    \/ Dedup(w)
    \/ DedupRemove(w)
    \/ DedupListOpen(w)
    \/ DedupListAppend(w)
    \/ DedupAttach(w)
    \/ Commit(w)
    \/ HashRelease(w)
    \/ ReleaseItem(w)

InitLists ==
    /\ db = EmptyDB
    /\ fs = EmptyFS
    /\ remote \in RemoteInits
    /\ reg = EmptyReg
    /\ pc = [w \in Workers |-> "idle"]
    /\ loc = [w \in Workers |-> LocInit]
    /\ pool = {}
    /\ orch = [OrchInit EXCEPT !.configured = <<MainAcct>>,
                               !.workers = {"w1", "w2"}, !.runs = 1]
    /\ faults = 0
    /\ hist = HistInit

NextLists ==
    \/ StoreBegin
    \/ \E a \in Accts, cid \in CollIds : processCollection(a, cid)
    \/ \E w \in Workers : Receive(w) \/ ProcessItemOpening(w)
    \/ StoreEnd

SpecLists == InitLists /\ [][NextLists]_vars

\* worker w is between os.OpenFile and Close of the media list of dir
HasOpen(w, dir) ==
    /\ pc[w] \in {"member_open", "dedup_list_open"}
    /\ loc[w].ctx.dir = dir

\* C15: no two workers have the media list of one collection open for
\* writing at the same moment, also when they process two different items
\* of the collection.
C15_OneWriterPerMediaList ==
    \A w1, w2 \in Workers :
       \A dir \in fs.dirs : (HasOpen(w1, dir) /\ HasOpen(w2, dir)) => w1 = w2

(***************************************************************************)
(* Store, an item edited at the provider, and Store again, by one worker;  *)
(* the records are noted as each Store finds them.                         *)
(***************************************************************************)
StoreBeginNoted ==
    /\ StoreCalled
    /\ hist' = [hist EXCEPT !.before = db.items]

InitEdit ==
    /\ db = EmptyDB
    /\ fs = EmptyFS
    /\ remote \in FaultyInits
    /\ reg = EmptyReg
    /\ pc = [w \in Workers |-> "idle"]
    /\ loc = [w \in Workers |-> LocInit]
    /\ pool = {}
    /\ orch = [OrchInit EXCEPT !.configured = <<MainAcct>>, !.workers = {"w1"},
                               !.runs = 2, !.changes = 1]
    /\ faults = 0
    /\ hist = HistInit

NextEdit ==
    \/ StoreBeginNoted
    \/ StoreAloneRuns
    \/ \E id \in ItemIds : RemoteEdit(id)

SpecEdit == InitEdit /\ [][NextEdit]_vars

\* item k was stored when this Store began, the provider lists it, and it
\* has another etag and other bytes than the stored ones
Edited(k) ==
    /\ Has(hist.before, k)
    /\ hist.before[k].Checksum # NoSum
    /\ \E c \in DOMAIN remote.colls : c[1] = k[1] /\ k[2] \in remote.colls[c]
    /\ remote.etag[k[2]] # hist.before[k].ETag
    /\ Sha256(remote.content[k[2]]) # hist.before[k].Checksum

Redownloaded(k) ==
    LET was == hist.before[k]
        Y == remote.content[k[2]]
    IN  /\ Has(db.items, k)
        /\ db.items[k].FilePath = was.FilePath
        /\ db.items[k].FileName = was.FileName
        /\ db.items[k].Collections = was.Collections
        /\ db.items[k].ETag = remote.etag[k[2]]
        /\ db.items[k].Checksum = Sha256(Y)
        /\ Has(fs.files, was.FilePath)
        /\ fs.files[was.FilePath] = Y
        /\ k \in Range(itemsWithChecksum(db, Sha256(Y)))
        /\ k \notin Range(itemsWithChecksum(db, was.Checksum))

StoreReturns == orch.phase = "store" /\ orch'.phase = "idle"

\* C20: when Store returns, every item that was stored before and has a
\* new etag and new content Y has Y in the file at its unchanged file-path,
\* the checksum of Y, the new etag, its file-name and collections as
\* before, and is in the bucket of Y's checksum and not in the old one.
C20_EditedItemRedownloaded ==
    [][StoreReturns => \A k \in DOMAIN hist.before : Edited(k) => Redownloaded(k)]_vars

(***************************************************************************)
(* One Store by two workers over two collections, with the calls of the    *)
(* provider's DownloadItemInto that returned nil counted.                  *)
(***************************************************************************)
DownloadAttemptCounted(w) ==
    /\ DownloadItemInto(w)
    /\ hist' = [hist EXCEPT !.downloads = @ + 1]

ProcessItemCounting(w) ==
    \/ ClaimItem(w)
    \/ ClaimWait(w)
    \/ LoadItem(w)
    \/ Member(w)
    \/ Attach(w)
    \/ Integrity(w)
    \/ DownloadMkdir(w)
    \/ Reserve(w)
    \/ DownloadReserved(w)
    \/ DownloadAttemptCounted(w)
    \/ HashLock(w)
    \/ HashWait(w)
    \/ Dedup(w)
    \/ DedupRemove(w)
    \/ DedupList(w)
    \/ DedupAttach(w)
    \/ Commit(w)
    \/ HashRelease(w)
    \/ ReleaseItem(w)

InitBoth ==
    /\ db = EmptyDB
    /\ fs = EmptyFS
    /\ remote \in RemoteInits
    /\ reg = EmptyReg
    /\ pc = [w \in Workers |-> "idle"]
    /\ loc = [w \in Workers |-> LocInit]
    /\ pool = {}
    /\ orch = [OrchInit EXCEPT !.configured = <<MainAcct>>,
                               !.workers = {"w1", "w2"}, !.runs = 1]
    /\ faults = 0
    /\ hist = HistInit

NextBoth ==
    \/ StoreBegin
    \/ \E a \in Accts, cid \in CollIds : processCollection(a, cid)
    \/ \E w \in Workers : Receive(w) \/ ProcessItemCounting(w)
    \/ StoreEnd

SpecBoth == InitBoth /\ [][NextBoth]_vars

\* A and B list p and nothing else
BothListP ==
    /\ remote.colls[<<MainAcct, "A">>] = {"p"}
    /\ remote.colls[<<MainAcct, "B">>] = {"p"}

StoreDone == orch.phase = "idle" /\ orch.runs = 0

\* collection c holds the file of p and the media list of collection o has
\* the one line that points to it
HeldIn(c, o) ==
    LET dc == db.colls[<<MainAcct, c>>].DirPath
        do == db.colls[<<MainAcct, o>>].DirPath
        fp == db.items[PKey].FilePath
    IN  /\ fp.dir = dc
        /\ DOMAIN fs.files = {fp}
        /\ ~Has(fs.lists, dc)
        /\ Has(fs.lists, do)
        /\ fs.lists[do] = <<fp>>

CanonicalOf(w) ==
    LET li == itemsWithChecksum(db, loc[w].sum)[1]
    IN  db.items[li].FilePath

\* worker w commits a new item whose content the index already had
CommitsDuplicate(w) ==
    /\ pc[w] = "commit"
    /\ pc'[w] = "hash_release"
    /\ Len(loc[w].same) > 0
    /\ Has(db'.items, <<loc[w].ctx.acct, loc[w].ctx.item>>)

\* C22: when a new item is committed whose content an indexed item already
\* has, the file downloaded for it is gone, the canonical file is still
\* there with its bytes, and the media list of the new item's collection
\* gained exactly one line, the canonical path.
C22_DuplicateLeavesOneLine ==
    [][\A w \in Workers :
          /\ (pc[w] = "dedup_list" /\ pc'[w] = "dedup_attach") =>
                fs'.lists[loc[w].ctx.dir] =
                   Append(IF Has(fs.lists, loc[w].ctx.dir)
                          THEN fs.lists[loc[w].ctx.dir] ELSE <<>>, CanonicalOf(w))
          /\ CommitsDuplicate(w) =>
                /\ ~ /\ Has(fs'.files, loc[w].it.filePath)
                      /\ \A k \in DOMAIN db'.items :
                            db'.items[k].FilePath # loc[w].it.filePath
                      /\ \A v \in Workers \ {w} : loc[v].made # loc[w].it.filePath
          /\ (pc[w] = "dedup_rm" /\ pc'[w] = "dedup_list"
                 /\ Has(fs.files, CanonicalOf(w))) =>
                /\ Has(fs'.files, CanonicalOf(w))
                /\ fs'.files[CanonicalOf(w)] = fs.files[CanonicalOf(w)]]_vars

(***************************************************************************)
(* reserveUniqueFilename on the text of the names: a name is the sequence  *)
(* of its characters.  One goroutine reserves one target name in one       *)
(* directory again and again; the directory starts with some of the first  *)
(* candidates in it, or with the name and every candidate up to -999.      *)
(***************************************************************************)
MaxSequential == 5
MaxInDir == 4

TextPath(dir, text) == FilePathOf(dir, text, 1)

PJpg == <<"p", ".", "j", "p", "g">>
Album == <<"a", "l", "b", "u", "m">>
TarGz == <<"a", ".", "t", ".", "g">>

Targets == {PJpg, Album, TarGz}

InitNames ==
    /\ db = EmptyDB
    /\ \E t \in Targets :
          /\ hist = [HistInit EXCEPT !.target = t]
          /\ \E S \in (SUBSET (1..MaxInDir)) \cup {1..(CollisionLimit - 1)} :
                fs = [files |-> [x \in {TextPath(AlbumDir, Numbered(t, k)) : k \in S} |-> "X"],
                      dirs |-> {AlbumDir}, lists |-> Empty]
    /\ orch = [OrchInit EXCEPT !.calls = MaxSequential]
    /\ remote = [colls |-> Empty, name |-> Empty, etag |-> Empty, content |-> Empty]
    /\ reg = EmptyReg
    /\ pc = [w \in Workers |-> "idle"]
    /\ loc = [w \in Workers |-> LocInit]
    /\ pool = {}
    /\ faults = 0

\* the call is made: candidate, candidatePath := targetName, targetPath
\* (no other goroutine holds the name)
ReserveNameCall ==
    /\ pc["w1"] = "idle"
    /\ orch.calls > 0
    /\ orch' = [orch EXCEPT !.calls = @ - 1]
    /\ loc' = [loc EXCEPT !["w1"].cand = hist.target,
                          !["w1"].candPath = TextPath(AlbumDir, hist.target),
                          !["w1"].ri = 2]
    /\ pc' = [pc EXCEPT !["w1"] = "n_loop"]
    /\ UNCHANGED <<db, fs, remote, reg, pool, faults, hist>>

\* for i := 2; i < 1000; i++: the turn for i looks at candidate number
\* i - 1, so the candidates looked at are 1 .. CollisionLimit - 2; the loop
\* stops at the first one that does not exist, and when all of them exist
\* it ends with candidate number CollisionLimit - 1 and the candidatePath
\* of the one before it
ReserveNameLoop ==
    /\ pc["w1"] = "n_loop"
    /\ LET free == {k \in 1..(CollisionLimit - 2) :
                      ~fileExists(fs, TextPath(AlbumDir, Numbered(hist.target, k)))}
           k == IF free = {} THEN CollisionLimit - 1
                ELSE CHOOSE n \in free : \A m \in free : n <= m
       IN  loc' = [loc EXCEPT
                     !["w1"].cand = Numbered(hist.target, k),
                     !["w1"].candPath = TextPath(AlbumDir, Numbered(hist.target, FinalOf(k))),
                     !["w1"].ri = k + 1]
    /\ pc' = [pc EXCEPT !["w1"] = "n_create"]
    /\ UNCHANGED <<db, fs, remote, reg, pool, orch, faults, hist>>

\* os.Create(finalPath); return candidate, nil
ReserveNameCreate ==
    /\ pc["w1"] = "n_create"
    /\ fs' = osCreate(fs, loc["w1"].candPath)
    /\ hist' = [hist EXCEPT !.names = Append(@, [name |-> loc["w1"].cand, err |-> ""])]
    /\ loc' = [loc EXCEPT !["w1"] = LocInit]
    /\ pc' = [pc EXCEPT !["w1"] = "idle"]
    /\ UNCHANGED <<db, remote, reg, pool, orch, faults>>

NextNames ==
    \/ ReserveNameCall
    \/ ReserveNameLoop
    \/ ReserveNameCreate

SpecNames == InitNames /\ [][NextNames]_vars

\* the names the calls returned are the files of the directory: it was
\* empty before the first call
StartedEmpty ==
    /\ pc["w1"] = "idle"
    /\ DOMAIN fs.files = {TextPath(AlbumDir, hist.names[n].name) : n \in 1..Len(hist.names)}

ExpectedNames ==
    IF hist.target = PJpg THEN
    <<<<"p", ".", "j", "p", "g">>,
      <<"p", "-", "0", "0", "2", ".", "j", "p", "g">>,
      <<"p", "-", "0", "0", "3", ".", "j", "p", "g">>,
      <<"p", "-", "0", "0", "4", ".", "j", "p", "g">>,
      <<"p", "-", "0", "0", "5", ".", "j", "p", "g">>,
      <<"p", "-", "0", "0", "6", ".", "j", "p", "g">>>>
    ELSE IF hist.target = Album THEN
    <<<<"a", "l", "b", "u", "m">>,
      <<"a", "l", "b", "u", "m", "-", "0", "0", "2">>,
      <<"a", "l", "b", "u", "m", "-", "0", "0", "3">>,
      <<"a", "l", "b", "u", "m", "-", "0", "0", "4">>,
      <<"a", "l", "b", "u", "m", "-", "0", "0", "5">>,
      <<"a", "l", "b", "u", "m", "-", "0", "0", "6">>>>
    ELSE
    <<<<"a", ".", "t", ".", "g">>,
      <<"a", "-", "0", "0", "2", ".", "t", ".", "g">>,
      <<"a", "-", "0", "0", "3", ".", "t", ".", "g">>,
      <<"a", "-", "0", "0", "4", ".", "t", ".", "g">>,
      <<"a", "-", "0", "0", "5", ".", "t", ".", "g">>,
      <<"a", "-", "0", "0", "6", ".", "t", ".", "g">>>>

\* C23: reservations of one target name in one directory, one after the
\* other, return the name and then the name with -002, -003, ... before
\* its first "." or at its end when it has none: p.jpg, p-002.jpg, ...,
\* p-005.jpg, and album, album-002, album-003.
C23_NumberedNames ==
    StartedEmpty =>
       \A n \in 1..Len(hist.names) :
          n <= Len(ExpectedNames) =>
          /\ hist.names[n].err = ""
          /\ hist.names[n].name = ExpectedNames[n]

\* five reservations of p.jpg in a directory that was empty
C23_Witness ==
    /\ StartedEmpty
    /\ hist.target = PJpg
    /\ Len(hist.names) = MaxSequential

\* the target name and every numbered candidate up to -999 exist
DirectoryFull ==
    /\ Cardinality(DOMAIN fs.files) >= CollisionLimit - 1
    /\ \A k \in 1..(CollisionLimit - 1) :
          fileExists(fs, TextPath(AlbumDir, Numbered(hist.target, k)))

\* C24: when the target name and every numbered candidate up to -999
\* exist already, a reservation fails with an exhaustion error instead of
\* returning a name, and it creates no file and truncates none.
C24_ExhaustionError ==
    DirectoryFull =>
       /\ \A n \in 1..Len(hist.names) : hist.names[n].err # ""
       /\ \A x \in DOMAIN fs.files : fs.files[x] = "X"

(***************************************************************************)
(* replaceInMediaListFile applied to one manifest: once with (a, b) and    *)
(* then with (b, c) in one directory, and once with (a, c) on the same     *)
(* manifest in another.                                                    *)
(***************************************************************************)
MaxLines == 3

LinePaths == {FilePathOf(AlbumDir, n, 1) : n \in {"x", "y", "z"}}

RECURSIVE ManifestsUpTo(_)
ManifestsUpTo(n) ==
    IF n = 0 THEN {<<>>}
    ELSE LET shorter == ManifestsUpTo(n - 1)
         IN  shorter \cup {Append(m, x) : m \in shorter, x \in LinePaths}

ChainDir == DirPathOf(MainAcct, "A", 1)
DirectDir == DirPathOf(MainAcct, "B", 1)

\* the same manifest, or none, in both directories
InitManifest ==
    /\ db = EmptyDB
    /\ \E a \in LinePaths, b \in LinePaths, c \in LinePaths \cup {NoPath} :
       \E M \in ManifestsUpTo(MaxLines), exists \in BOOLEAN :
          /\ exists \/ M = <<>>
          /\ hist = [HistInit EXCEPT !.args = [exists |-> exists, m |-> M,
                                               a |-> a, b |-> b, c |-> c]]
          /\ fs = [files |-> Empty, dirs |-> {ChainDir, DirectDir},
                   lists |-> IF ~exists THEN Empty
                             ELSE [d \in {ChainDir, DirectDir} |-> M]]
    /\ orch = OrchInit
    /\ remote = [colls |-> Empty, name |-> Empty, etag |-> Empty, content |-> Empty]
    /\ reg = EmptyReg
    /\ pc = [w \in Workers |-> "idle"]
    /\ loc = [w \in Workers |-> LocInit]
    /\ pool = {}
    /\ faults = 0

\* replaceInMediaListFile(dirPath, a, b)
ReplaceOldByMid ==
    /\ pc["w1"] = "idle"
    /\ fs' = replaceInMediaListFile(fs, ChainDir, hist.args.a, hist.args.b)
    /\ pc' = [pc EXCEPT !["w1"] = "m_mid"]
    /\ UNCHANGED <<db, remote, reg, loc, pool, orch, faults, hist>>

\* replaceInMediaListFile(dirPath, b, c) on what the first call left
ReplaceMidByNew ==
    /\ pc["w1"] = "m_mid"
    /\ fs' = replaceInMediaListFile(fs, ChainDir, hist.args.b, hist.args.c)
    /\ pc' = [pc EXCEPT !["w1"] = "m_direct"]
    /\ UNCHANGED <<db, remote, reg, loc, pool, orch, faults, hist>>

\* replaceInMediaListFile(dirPath, a, c) on the manifest as it was
ReplaceOldByNew ==
    /\ pc["w1"] = "m_direct"
    /\ fs' = replaceInMediaListFile(fs, DirectDir, hist.args.a, hist.args.c)
    /\ pc' = [pc EXCEPT !["w1"] = "m_done"]
    /\ UNCHANGED <<db, remote, reg, loc, pool, orch, faults, hist>>

NextManifest ==
    \/ ReplaceOldByMid
    \/ ReplaceMidByNew
    \/ ReplaceOldByNew

SpecManifest == InitManifest /\ [][NextManifest]_vars

\* the manifest of the directory: whether the file is there, and its lines
ManifestOf(dir) ==
    IF Has(fs.lists, dir) THEN [exists |-> TRUE, lines |-> fs.lists[dir]]
    ELSE [exists |-> FALSE, lines |-> <<>>]

BothReplaced == pc["w1"] = "m_done"

\* C25 as stated: for every manifest M and paths a, b, c with b non-empty,
\* replacing a by b and then b by c leaves the manifest that replacing a by
\* c leaves (an empty c deletes the line, a manifest left without lines is
\* deleted), also when M already holds b or c.
C25_ReplaceComposes ==
    BothReplaced => ManifestOf(ChainDir) = ManifestOf(DirectDir)

\* C25, amended: the two ways leave the same manifest when M holds no line
\* equal to b, or b equals a or c; and only then.
C25_ReplaceComposesWithoutMid ==
    BothReplaced =>
       LET g == hist.args
           clear == \/ g.b \notin Range(g.m)
                    \/ g.b = g.a
                    \/ g.b = g.c
       IN  clear <=> (ManifestOf(ChainDir) = ManifestOf(DirectDir))

\* a manifest with two lines a and a line c, b not among them, c non-empty:
\* both ways leave three lines c
C25_Witness ==
    /\ BothReplaced
    /\ hist.args.exists
    /\ hist.args.c # NoPath
    /\ Len(hist.args.m) = MaxLines
    /\ Cardinality({n \in 1..MaxLines : hist.args.m[n] = hist.args.a}) = 2
    /\ hist.args.c \in Range(hist.args.m)
    /\ hist.args.b \notin Range(hist.args.m)
    /\ ManifestOf(ChainDir).lines = <<hist.args.c, hist.args.c, hist.args.c>>
    /\ ManifestOf(DirectDir) = ManifestOf(ChainDir)

(***************************************************************************)
(* deleteCollection and what else the folder holds: after Store, a file    *)
(* explorer or the user leaves entries in the folders, a collection is no  *)
(* longer listed, and Prune runs.                                          *)
(***************************************************************************)
ForeignNames == {".DS_Store", "Thumbs.db", "notes.txt"}

FolderInits ==
    {[colls |-> (<<MainAcct, "A">> :> Sa) @@
                (IF inB THEN (<<MainAcct, "B">> :> {"p"}) ELSE Empty),
      name |-> [p |-> "p.jpg", q |-> "q.jpg"],
      etag |-> [i \in ItemIds |-> "e1"],
      content |-> [p |-> "X", q |-> y]] :
        Sa \in {{"p"}, {"p", "q"}}, inB \in BOOLEAN, y \in {"X", "Y"}}

InitFolder ==
    /\ db = EmptyDB
    /\ fs = EmptyFS
    /\ remote \in FolderInits
    /\ reg = EmptyReg
    /\ pc = [w \in Workers |-> "idle"]
    /\ loc = [w \in Workers |-> LocInit]
    /\ pool = {}
    /\ orch = [OrchInit EXCEPT !.configured = <<MainAcct>>, !.workers = {"w1"},
                               !.runs = 1, !.changes = 1, !.prunes = 1]
    /\ faults = 0
    /\ hist = HistInit

\* something other than photobak writes a file into a collection's folder
ForeignEntry ==
    /\ orch.phase = "idle"
    /\ orch.runs = 0
    /\ orch.prunes = 1
    /\ \E c \in DOMAIN db.colls, name \in ForeignNames :
          LET path == FilePathOf(db.colls[c].DirPath, name, 1)
          IN  /\ db.colls[c].DirPath \in fs.dirs
              /\ ~Has(fs.files, path)
              /\ fs' = [fs EXCEPT !.files = Put(@, path, "F")]
    /\ UNCHANGED <<db, remote, reg, pc, loc, pool, orch, faults, hist>>

Unlisted ==
    /\ orch.runs = 0
    /\ \E cid \in {"A", "B"} : RemoteUnlist(MainAcct, cid)

NextFolder ==
    \/ StoreAlone
    \/ ForeignEntry
    \/ Unlisted
    \/ (orch.runs = 0 /\ orch.changes = 0 /\ Prune)

SpecFolder == InitFolder /\ [][NextFolder]_vars

\* deleteCollection has made it past the items and the record, to the folder
DeleteCollectionFolder ==
    /\ orch.phase = "prune"
    /\ orch.cur # Nil
    /\ orch.items = {}
    /\ orch.deleting
    /\ orch'.cur = Nil
    /\ orch.cur.coll.DirPath \in fs.dirs

Ignorable(n) ==
    LET name == EntryText(n) IN name[1] = "." \/ name = TextOf("Thumbs.db")

\* C26: delete-collection removes the collection's directory exactly when
\* the directory is empty or each of its entries is hidden (its name starts
\* with ".") or is named Thumbs.db; with any other entry in it, however many
\* entries there are and in whatever order they are listed, it stays.
C26_FolderRemovedIffIgnorable ==
    [][DeleteCollectionFolder =>
          LET dir == orch.cur.coll.DirPath
          IN  (dir \notin fs'.dirs) <=> \A n \in EntryNames(fs, dir) : Ignorable(n)]_vars

(***************************************************************************)
(* The scope of a failure during Store: one account, every goroutine       *)
(* scheduled fairly, and calls that fail: the index, the file system, the  *)
(* download, a panic of the provider inside processItem, and               *)
(* processCollection.                                                      *)
(***************************************************************************)
\* the provider panics inside DownloadItemInto: the deferred release of
\* the item's key runs and processItem recovers; nothing removes the file
DownloadPanics(w) ==
    /\ pc[w] = "dl_attempt"
    /\ loc[w].path # NoPath
    /\ faults > 0
    /\ faults' = faults - 1
    /\ fs' = [fs EXCEPT !.files = Put(@, loc[w].path, "~")]
    /\ loc' = [loc EXCEPT ![w].err = TRUE, ![w].made = loc[w].path]
    /\ Goto(w, "release")
    /\ UNCHANGED <<db, remote, reg, pool, orch, hist>>

\* processCollection returns an error: loadCollection fails and nothing
\* has been done, or ListCollectionItems fails after the record, the folder
\* and some of the items (the provider closes the channel as it returns)
processCollectionFails(a, cid) ==
    /\ orch.phase = "store"
    /\ <<a, cid>> \in orch.towalk
    /\ Cardinality(Walking) < NumCollWorkers
    /\ faults > 0
    /\ faults' = faults - 1
    /\ \/ UNCHANGED <<db, fs, pool>>
       \/ LET dbc == loadCollection(db, a, cid)
              r == reserveUniqueFilename(fs, AcctDirOf(a), CollName(cid), TRUE)
              dirName == IF dbc = Nil THEN r.name ELSE dbc.DirName
              dirPath == IF dirName = NoName THEN AcctDirOf(a)
                         ELSE DirPathOf(a, dirName.name, dirName.k)
              dbc2 == IF dbc = Nil
                      THEN [ID |-> cid, Name |-> CollName(cid), DirName |-> dirName,
                            DirPath |-> dirPath, Items |-> {}]
                      ELSE dbc
              all == ContextsOf(a, cid, dirPath, orch.integrity)
          IN  /\ fs' = IF dbc = Nil THEN r.fs ELSE fs
              /\ db' = saveCollection(db, a, cid, dbc2)
              /\ \E some \in (SUBSET all) \ {all} : pool' = pool \cup some
    /\ orch' = [orch EXCEPT !.towalk = @ \ {<<a, cid>>}]
    /\ UNCHANGED <<remote, reg, pc, loc, hist>>

ScopeWalker(k) ==
    \/ Walker(k)
    \/ processCollectionFails(k[1], k[2])

ScopeWorker(w) ==
    \/ Worker(w)
    \/ ProcessItemFails(w)
    \/ DownloadPanics(w)

\* one worker and up to MaxFaults failures, or two workers, two items of
\* one name and one failure
ScopeInits ==
    {[remote |-> r, workers |-> {"w1"}, faults |-> MaxFaults] :
        r \in {x \in RemoteInits : /\ x.colls[<<MainAcct, "A">>] = {"p", "q"}
                                   /\ x.colls[<<MainAcct, "B">>] = {}
                                   /\ x.name["q"] = "q.jpg"}}
    \cup
    {[remote |-> r, workers |-> {"w1", "w2"}, faults |-> 1] :
        r \in {x \in RemoteInits : /\ x.colls[<<MainAcct, "A">>] = {"p", "q"}
                                   /\ x.colls[<<MainAcct, "B">>] = {"p"}
                                   /\ x.name["q"] = "p.jpg"}}

InitScope ==
    /\ db = EmptyDB
    /\ fs = EmptyFS
    /\ reg = EmptyReg
    /\ pc = [w \in Workers |-> "idle"]
    /\ loc = [w \in Workers |-> LocInit]
    /\ pool = {}
    /\ \E i \in ScopeInits :
          /\ remote = i.remote
          /\ faults = i.faults
          /\ orch = [OrchInit EXCEPT !.configured = <<MainAcct>>,
                                     !.workers = i.workers, !.runs = 1]
    /\ hist = HistInit

NextScope ==
    \/ Orchestrator
    \/ \E k \in CollKeys : ScopeWalker(k)
    \/ \E w \in Workers : ScopeWorker(w)

SpecScope ==
    /\ InitScope
    /\ [][NextScope]_vars
    /\ WF_vars(Orchestrator)
    /\ \A k \in CollKeys : WF_vars(ScopeWalker(k))
    /\ \A w \in Workers : WF_vars(ScopeWorker(w))

\* every context has been handed to a worker, every worker is through
\* with what it was handed, and Store has returned
AllProcessed ==
    /\ orch.main = "returned"
    /\ orch.towalk = {}
    /\ pool = {}
    /\ \A w \in orch.workers : pc[w] = "exited"

\* C27: during Store, a failure while one item is processed (every
\* download attempt fails, the index returns an error, a panic) or while
\* one collection is processed (listing its items fails) does not stop the
\* run: every other item is still handed to a worker and processed.
C27_FailureKeepsScope == <>AllProcessed

\* a failure has happened, the run is through, and the item that the
\* failure did not touch is in the index
C27_Witness ==
    /\ AllProcessed
    /\ faults = 0
    /\ Cardinality(orch.workers) = 1
    /\ ~Has(db.items, <<MainAcct, "p">>)
    /\ Has(db.items, <<MainAcct, "q">>)

\* Prune returns at this step
PruneReturns == orch.phase = "prune" /\ orch'.phase = "idle"

\* nothing is left for the run to look at: no account, no collection of
\* the account at hand, no item of the collection at hand
NothingLeft ==
    /\ orch.accts = <<>>
    /\ orch.todo = <<>>
    /\ orch.cur = Nil
    /\ orch.items = {}

\* C28: during Prune, a failure to remove one item does not end the run:
\* the items, collections and accounts that remain are still reconciled,
\* so that Prune returns only when none remains.
C28_PruneGoesOnAfterFailure == [][PruneReturns => NothingLeft]_vars

\* downloadAndSaveItem of worker w is under way; its download has
\* returned nil
InDownloadAndCommit(w) ==
    \/ pc[w] \in {"dl_mkdir", "dl_reserved", "dl_attempt", "hash_lock", "hash_wait",
                  "dedup", "dedup_rm", "dedup_list", "dedup_list_open",
                  "dedup_attach", "commit", "hash_release"}
    \/ (pc[w] \in {"r_enter", "r_wait", "r_loop", "r_create", "r_release"}
           /\ loc[w].rret = "dl_reserved")

Downloaded(w) ==
    pc[w] \in {"hash_lock", "hash_wait", "dedup", "dedup_rm", "dedup_list",
               "dedup_list_open", "dedup_attach", "commit", "hash_release"}

\* the times client.DownloadItemInto has been called in it
Invoked(w) == loc[w].tries + (IF Downloaded(w) THEN 1 ELSE 0)

\* save-item succeeds at this step
CommitsItem(w) == pc[w] = "commit" /\ pc'[w] = "hash_release" /\ ~loc'[w].err

\* at most DownloadAttempts calls, none after the first that succeeds; the
\* record saved has the digest of the item's bytes, which are the bytes of
\* the file when the file is the item's own; after DownloadAttempts
\* failures nothing but the error return follows
AttemptsStep(w) ==
    /\ Invoked(w) <= DownloadAttempts
    /\ Downloaded(w) => pc'[w] # "dl_attempt"
    /\ CommitsItem(w) =>
          LET c == loc[w].ctx
              dbi == db'.items[<<c.acct, c.item>>]
          IN  /\ Invoked(w) \in 1..DownloadAttempts
              /\ dbi.Checksum = Sha256(remote.content[c.item])
              /\ (loc[w].made = dbi.FilePath /\ Has(fs.files, dbi.FilePath))
                    => fs.files[dbi.FilePath] = remote.content[c.item]
    /\ (loc[w].tries = DownloadAttempts /\ ~Downloaded(w))
          => (loc[w].err /\ pc[w] \in {"fail", "release"})

\* downloadAndSaveItem returns at this step
ReturnsFromDownload(w) == InDownloadAndCommit(w) /\ pc'[w] \in {"fail", "release"}

\* C29 as stated: within one Download-and-Commit the provider's download
\* is invoked at least once and at most 3 times and the attempts stop at
\* the first success; the file is truncated and the hash restarted before
\* each attempt, so the committed checksum covers exactly the bytes of the
\* successful attempt; after 3 failures the operation returns an error and
\* save-item is never called.
C29_OneToThreeAttempts ==
    [][\A w \in Workers :
          /\ AttemptsStep(w)
          /\ ReturnsFromDownload(w) => Invoked(w) >= 1]_vars

\* C29, amended: the same without "at least once", which holds only of a
\* Download-and-Commit that got as far as its first attempt
C29_AtMostThreeAttempts ==
    [][\A w \in Workers :
          /\ AttemptsStep(w)
          /\ (ReturnsFromDownload(w) /\ Invoked(w) = 0)
                => (pc[w] \in {"dl_mkdir", "dl_reserved", "dl_attempt"} /\ pc'[w] = "fail")]_vars

\* the third attempt succeeded and the item is committed with the digest
\* of its bytes
C29_Witness ==
    \E w \in Workers :
       /\ pc[w] = "hash_release"
       /\ ~loc[w].err
       /\ loc[w].tries = DownloadAttempts - 1
       /\ Has(db.items, <<loc[w].ctx.acct, loc[w].ctx.item>>)
       /\ db.items[<<loc[w].ctx.acct, loc[w].ctx.item>>].Checksum
             = Sha256(remote.content[loc[w].ctx.item])

(***************************************************************************)
(* Repository.CloseUnsafeOnExit while Store runs: an interrupt in the      *)
(* second of two runs of two workers, after the provider has changed what  *)
(* it lists.  The locks it takes are never given back.                     *)
(***************************************************************************)
\* w is inside a section of downloadingItem.pathMu that spans steps: the
\* reservation of the file name
PathMuHeld(w) ==
    \/ pc[w] = "dl_reserved"
    \/ (pc[w] \in {"r_enter", "r_wait", "r_loop", "r_create", "r_release"}
           /\ loc[w].rret = "dl_reserved")

\* the next step of w starts with pathMu.Lock()
TakesPathMu(w) == pc[w] \in {"dl_mkdir", "dl_attempt", "dedup_rm", "commit", "fail"}

\* the next step of w starts with downloadingMu.Lock()
TakesDownloadingMu(w) == pc[w] \in {"claim", "release"}

VisitedWorkers == {reg.downloading[k] : k \in orch.visited}

\* w waits for a lock that CloseUnsafeOnExit holds
BlockedByExit(w) ==
    /\ orch.exiting
    /\ \/ TakesDownloadingMu(w)
       \/ (w \in VisitedWorkers /\ TakesPathMu(w))

\* r.downloadingMu.Lock()
CloseUnsafeBegin ==
    /\ orch.phase = "store"
    /\ orch.runs = 0
    /\ ~orch.exiting
    /\ orch' = [orch EXCEPT !.exiting = TRUE]
    /\ UNCHANGED <<db, fs, remote, reg, pc, loc, pool, faults, hist>>

\* one turn of the range over r.downloading, in map order:
\* pathMu.Lock(); if path != "" { os.Remove(path) }
CloseUnsafeVisit(k) ==
    /\ orch.phase = "store"
    /\ orch.exiting
    /\ k \in DOMAIN reg.downloading
    /\ k \notin orch.visited
    /\ LET w == reg.downloading[k]
       IN  /\ ~PathMuHeld(w)
           /\ fs' = IF loc[w].path # NoPath THEN osRemove(fs, loc[w].path) ELSE fs
    /\ orch' = [orch EXCEPT !.visited = @ \cup {k}]
    /\ UNCHANGED <<db, remote, reg, pc, loc, pool, faults, hist>>

\* r.Close(), and os.Exit in the caller
CloseUnsafeEnd ==
    /\ orch.phase = "store"
    /\ orch.exiting
    /\ DOMAIN reg.downloading \subseteq orch.visited
    /\ orch' = [orch EXCEPT !.phase = "exited"]
    /\ UNCHANGED <<db, fs, remote, reg, pc, loc, pool, faults, hist>>

CloseUnsafeOnExit ==
    \/ CloseUnsafeBegin
    \/ \E k \in DOMAIN reg.downloading : CloseUnsafeVisit(k)
    \/ CloseUnsafeEnd

\* p alone in the first collection; q, of the same bytes, is not listed yet
ExitInits ==
    {r \in RemoteInits :
        /\ r.colls[<<MainAcct, "A">>] = {"p"}
        /\ r.colls[<<MainAcct, "B">>] = {}
        /\ r.name["q"] = "q.jpg"
        /\ r.content["q"] = "X"}

InitExit ==
    /\ db = EmptyDB
    /\ fs = EmptyFS
    /\ remote \in ExitInits
    /\ reg = EmptyReg
    /\ pc = [w \in Workers |-> "idle"]
    /\ loc = [w \in Workers |-> LocInit]
    /\ pool = {}
    /\ orch = [OrchInit EXCEPT !.configured = <<MainAcct>>, !.workers = {"w1", "w2"},
                               !.runs = 2, !.changes = 2]
    /\ faults = 0
    /\ hist = HistInit

\* between the runs p is edited and a collection is listed anew
ExitChange ==
    /\ orch.runs = 1
    /\ \/ RemoteEdit("p")
       \/ \E cid \in {"A", "B"} : RemoteList(MainAcct, cid)

NextExit ==
    \/ StoreBegin
    \/ \E a \in Accts, cid \in CollIds : processCollection(a, cid)
    \/ \E w \in Workers : ~BlockedByExit(w) /\ (Receive(w) \/ ProcessItem(w))
    \/ (~orch.exiting /\ StoreEnd)
    \/ ExitChange
    \/ CloseUnsafeOnExit

SpecExit == InitExit /\ [][NextExit]_vars

\* the files that this step unlinks
Unlinked == DOMAIN fs.files \ DOMAIN fs'.files

\* v holds its item's key and save-item has succeeded in this processing
SavedInAttempt(v) ==
    /\ pc[v] \in {"hash_release", "release"}
    /\ ~loc[v].err
    /\ loc[v].dbi # Nil
    /\ Has(db.items, <<loc[v].ctx.acct, loc[v].ctx.item>>)

\* v holds the key of a new item that has been deduplicated: its record
\* points at the canonical file of the item that had the bytes before
PointsAtCanonical(v) ==
    /\ pc[v] \in {"dedup_list", "dedup_list_open", "dedup_attach", "commit",
                  "hash_release", "release"}
    /\ ~loc[v].err
    /\ loc[v].it.isNew
    /\ Len(loc[v].same) > 0
    /\ loc[v].dbi # Nil

\* a turn of the cleanup's loop
CleanupTurn == orch.exiting /\ orch'.visited # orch.visited

\* C30: the cleanup at an interrupt (close-unsafe), at whatever point each
\* worker is, never unlinks the file of an item whose save-item has
\* succeeded in the processing that is under way, and never the canonical
\* file that a deduplicated new item points at.
C30_CleanupSparesSavedFiles ==
    [][CleanupTurn =>
          \A f \in Unlinked : \A v \in Workers :
             /\ ~(SavedInAttempt(v)
                    /\ db.items[<<loc[v].ctx.acct, loc[v].ctx.item>>].FilePath = f)
             /\ ~(PointsAtCanonical(v) /\ loc[v].dbi.FilePath = f)]_vars

(***************************************************************************)
(* The entries of r.itemChecksums while calls of Store fail.               *)
(***************************************************************************)
\* w is between taking the entry of its checksum and the deferred release
InHash(w) ==
    pc[w] \in {"dedup", "dedup_rm", "dedup_list", "dedup_list_open",
               "dedup_attach", "commit", "hash_release"}

C31_Held ==
    /\ \A w \in Workers :
          InHash(w) => /\ Has(reg.itemChecksums, loc[w].sum)
                       /\ reg.itemChecksums[loc[w].sum] = w
    /\ \A h \in DOMAIN reg.itemChecksums :
          LET w == reg.itemChecksums[h] IN InHash(w) /\ loc[w].sum = h
    /\ \A w1, w2 \in Workers :
          (w1 # w2 /\ InHash(w1) /\ InHash(w2)) => loc[w1].sum # loc[w2].sum
    /\ \A q \in Workers :
          loc[q].wait.kind = "sum"
             => /\ pc[q] = "hash_wait"
                /\ InHash(loc[q].wait.owner)
                /\ loc[loc[q].wait.owner].sum = loc[q].sum

C31_Step ==
    \A w \in Workers :
        /\ (pc[w] = "hash_wait" /\ pc'[w] # "hash_wait")
              => (pc'[w] = "hash_lock" /\ loc[w].wait = NoWait)
        /\ (pc[w] = "hash_lock" /\ Has(reg.itemChecksums, loc[w].sum))
              => (pc'[w] = "hash_lock" \/ (pc'[w] = "hash_wait" /\ loc'[w].wait # NoWait))
        /\ (~InHash(w) /\ InHash(w)')
              => (pc[w] = "hash_lock" /\ ~Has(reg.itemChecksums, loc[w].sum))
        /\ (InHash(w) /\ ~InHash(w)')
              => /\ pc[w] = "hash_release"
                 /\ pc'[w] = (IF loc[w].err THEN "fail" ELSE "release")
                 /\ ~Has(reg'.itemChecksums, loc[w].sum)
                 /\ \A q \in Workers : loc'[q].wait # [kind |-> "sum", owner |-> w]

\* C31: at any moment at most one worker holds the entry of one checksum,
\* from the moment its download's hash is final until downloadAndSaveItem
\* returns; a worker with the same checksum waits and looks the map up
\* again before it takes the entry; the entry is released and its waiters
\* are woken on every return, with or without an error.
C31_OneHolderPerChecksum == [](C31_Held) /\ [][C31_Step]_vars

\* a holder has failed on its way and released the entry with the error,
\* and the worker that waited for it goes on
C31_Witness ==
    \E w, q \in Workers :
        /\ w # q
        /\ pc[w] = "fail"
        /\ loc[w].sum # NoSum
        /\ loc[q].hwaited
        /\ loc[q].sum = loc[w].sum
        /\ pc[q] = "hash_lock"
        /\ loc[q].wait = NoWait

(***************************************************************************)
(* The channel of item contexts: close(ctxChan) against the forwarders of  *)
(* processCollection and the range loops of the workers.                    *)
(***************************************************************************)
\* the contexts that this step hands from a forwarder to a worker
Handed == pool \ pool'

\* once the channel is closed no forwarder has a context left to send,
\* every processCollection has run and every walker has returned
C32_Closed ==
    orch.closed => /\ pool = {}
                   /\ orch.towalk = {}
                   /\ orch.spawned \subseteq orch.returned

C32_Step ==
    /\ orch.closed => pool' = pool
    /\ \A c \in Handed :
          Cardinality({w \in Workers : pc[w] = "idle" /\ pc'[w] = "claim"
                                         /\ loc'[w].ctx = c}) = 1
    /\ \A w \in Workers :
          /\ (pc[w] = "idle" /\ pc'[w] = "claim") => loc'[w].ctx \in Handed
          /\ (pc[w] # "exited" /\ pc'[w] = "exited")
                => (orch.closed /\ pool = {} /\ pc[w] = "idle")

\* C32: the work channel is closed only after every collection walker has
\* forwarded all of its items: nothing is sent on it after the close, and
\* every context sent before the close is received by exactly one worker
\* before the workers exit.
C32_CloseAfterWalkers == [](C32_Closed) /\ [][C32_Step]_vars

\* two workers have shared the contexts of two collections, the channel is
\* closed and both workers have left their loops
C32_Witness ==
    /\ orch.closed
    /\ orch.workers = {"w1", "w2"}
    /\ \A w \in orch.workers : pc[w] = "exited"
    /\ orch.returned = {<<MainAcct, "A">>, <<MainAcct, "B">>}
    /\ Has(db.items, <<MainAcct, "p">>)
    /\ Has(db.items, <<MainAcct, "q">>)

(***************************************************************************)
(* Two Store runs of one worker; between them the provider edits items     *)
(* and files of the repository are lost or altered on disk.                *)
(***************************************************************************)
\* the bytes of a file that no item has
Garbage == "~"

\* outside the program: a stored file is removed, or its bytes change
LocalDamage ==
    /\ orch.phase = "idle"
    /\ orch.changes > 0
    /\ \E path \in DOMAIN fs.files :
          \/ fs' = osRemove(fs, path)
          \/ (fs.files[path] # Garbage
                /\ fs' = [fs EXCEPT !.files = Put(@, path, Garbage)])
    /\ orch' = [orch EXCEPT !.changes = @ - 1]
    /\ UNCHANGED <<db, remote, reg, pc, loc, pool, faults, hist>>

InitDamage ==
    /\ db = EmptyDB
    /\ fs = EmptyFS
    /\ remote \in FaultyInits
    /\ reg = EmptyReg
    /\ pc = [w \in Workers |-> "idle"]
    /\ loc = [w \in Workers |-> LocInit]
    /\ pool = {}
    /\ orch = [OrchInit EXCEPT !.configured = <<MainAcct>>, !.workers = {"w1"},
                               !.runs = 2, !.changes = 2]
    /\ faults = 0
    /\ hist = HistInit

NextDamage ==
    \/ StoreAlone
    \/ \E id \in ItemIds : RemoteEdit(id)
    \/ LocalDamage

SpecDamage == InitDamage /\ [][NextDamage]_vars

\* what the claim makes of the record w loaded, the listed item and the
\* stored file: the etags differ, or the integrity check is on and the
\* file cannot be hashed or hashes to another checksum
MustDownloadAgain(w) ==
    LET li == loc[w].loaded
        c == loc[w].ctx
    IN  \/ li.ETag # remote.etag[c.item]
        \/ /\ c.integrity
           /\ \/ ~Has(fs.files, li.FilePath)
              \/ Sha256(fs.files[li.FilePath]) # li.Checksum

\* w is in processItem with an item that was in the index
HoldsExisting(w) ==
    /\ pc[w] \notin {"idle", "claim", "claim_wait", "load", "exited"}
    /\ loc[w].loaded # Nil

\* downloadAndSaveItem is called at this step
DownloadBegins(w) == pc[w] # "dl_mkdir" /\ pc'[w] = "dl_mkdir"

\* processItem returns at this step without having called it
ReturnsUntouched(w) ==
    /\ pc[w] = "integrity"
    /\ pc'[w] = "release"
    /\ loc'[w].dbi = Nil
    /\ ~loc'[w].err
    /\ UNCHANGED <<db, fs>>

C33_Step ==
    \A w \in Workers :
        /\ (HoldsExisting(w) /\ DownloadBegins(w))
              => (pc[w] = "integrity" /\ MustDownloadAgain(w))
        /\ (HoldsExisting(w) /\ pc[w] = "integrity" /\ pc'[w] # "integrity")
              => IF MustDownloadAgain(w) THEN DownloadBegins(w) ELSE ReturnsUntouched(w)
        /\ (HoldsExisting(w) /\ pc[w] = "release") => (loc[w].dbi # Nil <=> ~loc[w].it.isNew /\ loc[w].it # NoIt)

\* C33: for an item that is in the index, processItem downloads again if
\* and only if the listed etag differs from the stored one, or the
\* integrity check is on and hashing the stored file fails or gives
\* another checksum; with equal etags and the check off nothing is
\* downloaded, also when the stored file is missing or altered.
C33_DownloadAgainIff == [][C33_Step]_vars

\* the check is off, the etags are equal, the stored file is missing or has
\* other bytes, and processItem is through without a download
C33_Witness ==
    \E w \in Workers :
        /\ pc[w] = "release"
        /\ loc[w].loaded # Nil
        /\ ~loc[w].ctx.integrity
        /\ loc[w].loaded.ETag = remote.etag[loc[w].ctx.item]
        /\ loc[w].loaded.Checksum # NoSum
        /\ hash(fs, loc[w].loaded.FilePath) # loc[w].loaded.Checksum
        /\ loc[w].dbi = Nil
        /\ ~loc[w].err

\* w is in downloadAndSaveItem for an item that was in the index
Redownloading(w) ==
    /\ loc[w].loaded # Nil
    /\ pc[w] \in {"dl_mkdir", "r_enter", "r_wait", "r_loop", "r_create", "r_release",
                  "dl_reserved", "dl_attempt", "hash_lock", "hash_wait", "dedup",
                  "dedup_rm", "dedup_list", "dedup_attach", "commit"}

ItemKeyOf(w) == <<loc[w].ctx.acct, loc[w].ctx.item>>

C34_Step ==
    \A w \in Workers :
        Redownloading(w) =>
           LET li == loc[w].loaded
               k == ItemKeyOf(w)
           IN  /\ pc'[w] \notin {"r_enter", "r_wait", "r_loop", "r_create",
                                 "r_release", "dl_reserved", "dedup_rm"}
               /\ DOMAIN fs'.files \subseteq DOMAIN fs.files \cup {li.FilePath}
               /\ \A f \in DOMAIN fs.files :
                     f # li.FilePath => (Has(fs'.files, f) /\ fs'.files[f] = fs.files[f])
               /\ (pc[w] = "dl_attempt" /\ pc'[w] = "hash_lock")
                     => (Has(fs'.files, li.FilePath)
                           /\ fs'.files[li.FilePath] = remote.content[loc[w].ctx.item])
               /\ (pc[w] = "commit" /\ pc'[w] = "hash_release")
                     => /\ Has(db'.items, k)
                        /\ db'.items[k].FilePath = li.FilePath
                        /\ db'.items[k].FileName = li.FileName
                        /\ li.Collections \subseteq db'.items[k].Collections
                        /\ db.items[k].Collections \subseteq db'.items[k].Collections
                        /\ db'.items[k].Checksum = Sha256(remote.content[loc[w].ctx.item])
                        /\ db'.items[k].ETag = remote.etag[loc[w].ctx.item]

\* C34: a re-download of an item that is in the index (corrupted or
\* modified remotely) writes to the file-path of its record and saves a
\* record with that file-path, that file-name and every collection id its
\* collections had before; no file name is reserved for it.
C34_RedownloadInPlace == [][C34_Step]_vars

\* a file that was lost has been downloaded again under the integrity
\* check, with the etag unchanged, and the record is saved
C34_Witness ==
    \E w \in Workers :
        /\ pc[w] = "hash_release"
        /\ loc[w].loaded # Nil
        /\ loc[w].ctx.integrity
        /\ loc[w].loaded.ETag = remote.etag[loc[w].ctx.item]
        /\ loc[w].dbi # Nil
        /\ ~loc[w].err
        /\ Cardinality(loc[w].loaded.Collections) = 2
        /\ db.items[ItemKeyOf(w)].FilePath = loc[w].loaded.FilePath
        /\ hash(fs, loc[w].loaded.FilePath) = db.items[ItemKeyOf(w)].Checksum

\* processItem returns nil at this step, for an item that was in the index
\* and was seen in a collection that its record did not have
SeenInNewCollection(w) ==
    /\ pc[w] = "release"
    /\ pc'[w] = "idle"
    /\ ~loc[w].err
    /\ loc[w].loaded # Nil
    /\ loc[w].ctx.coll \notin loc[w].loaded.Collections

\* C35: when an item that is in the index is seen in a collection whose id
\* its collections do not have, then after the processing the others.txt
\* of the collection has the item's file-path and the index links both
\* ways, also when the collection's folder holds another item's file of
\* the same file name.
C35_NewMembershipRecorded ==
    [][\A w \in Workers :
          SeenInNewCollection(w) =>
             LET c == loc[w].ctx
                 k == <<c.acct, c.item>>
             IN  /\ Has(db.items, k)
                 /\ c.coll \in db.items[k].Collections
                 /\ Has(db.colls, <<c.acct, c.coll>>)
                 /\ c.item \in db.colls[<<c.acct, c.coll>>].Items
                 /\ Has(fs.lists, c.dir)
                 /\ db.items[k].FilePath \in Range(fs.lists[c.dir])]_vars

\* C36: at quiescence, for every indexed item I and every collection C of
\* I.collections, a file exists at <C.dir-path>/<I.file-name> if and only
\* if the file at I.file-path lies directly in C.dir-path, also after a
\* move that reserved another name at the destination and after the
\* de-duplication removed the file reserved under I.file-name.
C36_NameTestFindsCanonical ==
    Quiescent =>
        \A k \in IndexedItems :
            \A cid \in db.items[k].Collections :
                Has(db.colls, <<k[1], cid>>) =>
                    LET dir == db.colls[<<k[1], cid>>].DirPath
                        dbi == db.items[k]
                    IN  fileExists(fs, PathJoin(dir, dbi.FileName))
                           <=> (Has(fs.files, dbi.FilePath) /\ dbi.FilePath.dir = dir)

(***************************************************************************)
(* One attempt of the download loop as a stream: the provider writes the   *)
(* item chunk by chunk to io.MultiWriter(outFile, h, dishonestWriter{pw}), *)
(* and the goroutine of exif.Decode reads from pr until it has what it     *)
(* wants or fails, then closes pr.  The producer's position is pc of w1,   *)
(* the decoder's is pc of w2; the stream is in hist.stream.                *)
(***************************************************************************)
MaxChunks == 2
MaxChunkLen == 2
\* bytes that one Read of the decoder takes at most
ReadLen == 2

Bytes == {0, 1}
Chunks == UNION {[1..n -> Bytes] : n \in 1..MaxChunkLen}
Sources == UNION {[1..n -> Chunks] : n \in 0..MaxChunks}

RECURSIVE Flatten(_)
Flatten(chunks) ==
    IF chunks = <<>> THEN <<>> ELSE Head(chunks) \o Flatten(Tail(chunks))

\* an honest writer: the result of the wrapped Write as it is
honestWrite(n, err, len) == [n |-> n, err |-> err]

\* dishonestWriter.Write: a write to a pipe whose read end is closed is
\* reported as a full write without error
dishonestWrite(n, err, len) ==
    IF err = "ErrClosedPipe" THEN [n |-> len, err |-> ""] ELSE [n |-> n, err |-> err]

\* src is what the provider sends, want the number of bytes the decoder
\* reads before it stops or fails (more than the source has: it reads on)
InitStream ==
    /\ db = EmptyDB
    /\ fs = EmptyFS
    /\ remote = [colls |-> Empty, name |-> Empty, etag |-> Empty, content |-> Empty]
    /\ reg = EmptyReg
    /\ pc = [w \in Workers |-> IF w = "w1" THEN "s_next"
                               ELSE IF w = "w2" THEN "x_read" ELSE "idle"]
    /\ loc = [w \in Workers |-> LocInit]
    /\ pool = {}
    /\ orch = OrchInit
    /\ faults = 0
    /\ \E src \in Sources, want \in 0..(MaxChunks * MaxChunkLen + 1) :
          hist = [HistInit EXCEPT !.stream =
                     [src |-> src, sent |-> 0, file |-> <<>>, hashed |-> <<>>,
                      buf |-> <<>>, taken |-> 0, closed |-> FALSE,
                      want |-> want, got |-> <<>>, err |-> ""]]

Chunk == hist.stream.src[hist.stream.sent + 1]

\* the provider has another chunk for mw.Write, or DownloadItemInto returns
StreamNext ==
    /\ pc["w1"] = "s_next"
    /\ IF hist.stream.sent < Len(hist.stream.src)
       THEN Goto("w1", "s_file")
       ELSE Goto("w1", "s_done")
    /\ UNCHANGED <<db, fs, remote, reg, loc, pool, orch, faults, hist>>

\* MultiWriter.Write, first writer: outFile
StreamFile ==
    /\ pc["w1"] = "s_file"
    /\ hist' = [hist EXCEPT !.stream.file = @ \o Chunk]
    /\ Goto("w1", "s_hash")
    /\ UNCHANGED <<db, fs, remote, reg, loc, pool, orch, faults>>

\* second writer: the hash
StreamHash ==
    /\ pc["w1"] = "s_hash"
    /\ hist' = [hist EXCEPT !.stream.hashed = @ \o Chunk]
    /\ Goto("w1", "s_pipe")
    /\ UNCHANGED <<db, fs, remote, reg, loc, pool, orch, faults>>

\* what MultiWriter.Write makes of the third writer's result
AfterPipeWrite(res, len) ==
    IF res.err # "" THEN [err |-> res.err, next |-> "s_err"]
    ELSE IF res.n # len THEN [err |-> "ErrShortWrite", next |-> "s_err"]
    ELSE [err |-> "", next |-> "s_next"]

\* third writer: pw.Write hands the chunk to the reader and blocks, or
\* finds the read end closed
StreamPipe ==
    /\ pc["w1"] = "s_pipe"
    /\ IF hist.stream.closed
       THEN LET res == dishonestWrite(0, "ErrClosedPipe", Len(Chunk))
                out == AfterPipeWrite(res, Len(Chunk))
            IN  /\ hist' = [hist EXCEPT !.stream.err = out.err,
                                        !.stream.sent = IF out.err = "" THEN @ + 1 ELSE @]
                /\ Goto("w1", out.next)
       ELSE /\ hist' = [hist EXCEPT !.stream.buf = Chunk, !.stream.taken = 0]
            /\ Goto("w1", "s_blocked")
    /\ UNCHANGED <<db, fs, remote, reg, loc, pool, orch, faults>>

\* pw.Write returns: the reader has taken the whole chunk, or it has
\* closed its end with part of the chunk not taken
StreamPipeReturns ==
    /\ pc["w1"] = "s_blocked"
    /\ hist.stream.buf = <<>> \/ hist.stream.closed
    /\ LET len == Len(Chunk)
           res == IF hist.stream.buf = <<>>
                  THEN dishonestWrite(len, "", len)
                  ELSE dishonestWrite(hist.stream.taken, "ErrClosedPipe", len)
           out == AfterPipeWrite(res, len)
       IN  /\ hist' = [hist EXCEPT !.stream.err = out.err, !.stream.buf = <<>>,
                                   !.stream.sent = IF out.err = "" THEN @ + 1 ELSE @]
           /\ Goto("w1", out.next)
    /\ UNCHANGED <<db, fs, remote, reg, loc, pool, orch, faults>>

Producer ==
    \/ StreamNext
    \/ StreamFile
    \/ StreamHash
    \/ StreamPipe
    \/ StreamPipeReturns

\* one Read of exif.Decode from pr
DecoderReads ==
    /\ pc["w2"] = "x_read"
    /\ hist.stream.want > 0
    /\ hist.stream.buf # <<>>
    /\ \E n \in 1..ReadLen :
          /\ n <= Len(hist.stream.buf)
          /\ n <= hist.stream.want
          /\ hist' = [hist EXCEPT
                !.stream.got = @ \o SubSeq(hist.stream.buf, 1, n),
                !.stream.buf = SubSeq(@, n + 1, Len(@)),
                !.stream.taken = @ + n,
                !.stream.want = @ - n]
    /\ UNCHANGED <<db, fs, remote, reg, pc, loc, pool, orch, faults>>

\* exif.Decode returns, with or without an error; pr.Close()
DecoderCloses ==
    /\ pc["w2"] = "x_read"
    /\ hist.stream.want = 0
    /\ hist' = [hist EXCEPT !.stream.closed = TRUE]
    /\ Goto("w2", "x_closed")
    /\ UNCHANGED <<db, fs, remote, reg, loc, pool, orch, faults>>

Decoder ==
    \/ DecoderReads
    \/ DecoderCloses

NextStream ==
    \/ Producer
    \/ Decoder

\* both goroutines are scheduled
SpecStream ==
    /\ InitStream
    /\ [][NextStream]_vars
    /\ WF_vars(Producer)
    /\ WF_vars(Decoder)

\* the download has returned nil with every byte in the file and the hash
DownloadComplete ==
    /\ pc["w1"] = "s_done"
    /\ hist.stream.err = ""
    /\ hist.stream.file = Flatten(hist.stream.src)
    /\ hist.stream.hashed = Flatten(hist.stream.src)

\* a write to the decoder's branch at this step, with the read end closed,
\* is a full write without error
C37_Step ==
    (pc["w1"] \in {"s_pipe", "s_blocked"} /\ hist.stream.closed)
       => (pc'["w1"] \in {"s_pipe", "s_blocked"}
             \/ (pc'["w1"] = "s_next" /\ hist'.stream.err = ""
                   /\ hist'.stream.sent = hist.stream.sent + 1))

\* C37: a download whose metadata extractor stops reading early, or fails,
\* still completes: every byte of the source reaches the file and the
\* hash, a write to the extractor's branch after its reader is closed is
\* reported as a full write without error, and the producer is never
\* blocked for ever by that branch.
C37_DownloadOutlivesDecoder ==
    /\ [](pc["w1"] # "s_err")
    /\ [][C37_Step]_vars
    /\ <>DownloadComplete

\* the decoder stopped inside the first of two chunks and the download is
\* complete
C37_Witness ==
    /\ DownloadComplete
    /\ Len(hist.stream.src) = 2
    /\ Len(hist.stream.src[1]) = 2
    /\ Len(hist.stream.got) = 1
    /\ hist.stream.closed

(***************************************************************************)
(* The command run for one account, then for the other, then Prune for     *)
(* both with a listing that fails: the two accounts have items of the same *)
(* bytes.                                                                  *)
(***************************************************************************)
OtherAcct == "gp:u2"

\* the first account lists p in A, and in B or not; the second lists p or
\* q in C
AccountsInits ==
    {[colls |-> (<<MainAcct, "A">> :> {"p"}) @@ (<<MainAcct, "B">> :> Sb)
                   @@ (<<OtherAcct, "C">> :> S),
      name |-> [p |-> "p.jpg", q |-> "q.jpg"],
      etag |-> [i \in ItemIds |-> "e1"],
      content |-> [p |-> "X", q |-> "X"]] :
        Sb \in {{}, {"p"}}, S \in {{"p"}, {"q"}, {"p", "q"}}}

InitAccounts ==
    /\ db = EmptyDB
    /\ fs = EmptyFS
    /\ remote \in AccountsInits
    /\ reg = EmptyReg
    /\ pc = [w \in Workers |-> "idle"]
    /\ loc = [w \in Workers |-> LocInit]
    /\ pool = {}
    /\ \E first \in Accts :
          orch = [OrchInit EXCEPT !.configured = <<first>>, !.workers = {"w1"},
                                  !.runs = 2, !.changes = 1, !.prunes = 1]
    /\ faults = 1
    /\ hist = HistInit

\* the command is run with other accounts: the other one after the first
\* Store, both after the second
Reconfigure ==
    /\ orch.phase = "idle"
    /\ Len(orch.configured) = 1
    /\ db # EmptyDB
    /\ LET a == orch.configured[1]
           b == CHOOSE x \in Accts : x # a
       IN  \/ (orch.runs = 1 /\ orch' = [orch EXCEPT !.configured = <<b>>])
           \/ (orch.runs = 0 /\ orch' = [orch EXCEPT !.configured = <<a, b>>])
           \/ (orch.runs = 0 /\ orch' = [orch EXCEPT !.configured = <<b, a>>])
    /\ UNCHANGED <<db, fs, remote, reg, pc, loc, pool, faults, hist>>

\* a collection is listed with other items, or not at all, before Prune
AccountsChange ==
    /\ orch.runs = 0
    /\ Len(orch.configured) = 2
    /\ \E k \in DOMAIN remote.colls : RemoteList(k[1], k[2]) \/ RemoteUnlist(k[1], k[2])

\* Prune is called; the index and the directory tree are noted
PruneBeginNoted ==
    /\ orch.phase = "idle"
    /\ orch.prunes > 0
    /\ orch.runs = 0
    /\ orch' = [orch EXCEPT !.phase = "prune", !.prunes = @ - 1, !.accts = orch.configured]
    /\ hist' = [hist EXCEPT !.before = [db |-> db, fs |-> fs], !.skipped = {}]
    /\ UNCHANGED <<db, fs, remote, reg, pc, loc, pool, faults>>

\* a variant that takes the listing that failed for one that lists nothing
\* and drops the account's collection records
PruneAccountDropsUnlisted ==
    /\ orch.phase = "prune"
    /\ orch.cur = Nil /\ orch.todo = <<>> /\ orch.accts # <<>>
    /\ faults > 0
    /\ faults' = faults - 1
    /\ LET a == Head(orch.accts)
       IN  /\ db' = [db EXCEPT !.colls = [c \in {x \in DOMAIN db.colls : x[1] # a} |->
                                             db.colls[c]]]
           /\ hist' = [hist EXCEPT !.skipped = @ \cup {a}]
    /\ orch' = [orch EXCEPT !.accts = Tail(@)]
    /\ UNCHANGED <<fs, remote, reg, pc, loc, pool>>

\* getRemoteState returns an error (ListCollections fails, or
\* ListCollectionItems fails for one of the collections): the error is
\* logged and the loop goes on with the next account
PruneAccountListingFails ==
    /\ orch.phase = "prune"
    /\ orch.cur = Nil /\ orch.todo = <<>> /\ orch.accts # <<>>
    /\ faults > 0
    /\ faults' = faults - 1
    /\ hist' = [hist EXCEPT !.skipped = @ \cup {Head(orch.accts)}]
    /\ orch' = [orch EXCEPT !.accts = Tail(@)]
    /\ UNCHANGED <<db, fs, remote, reg, pc, loc, pool>>

NextAccounts ==
    \/ StoreAlone
    \/ Reconfigure
    \/ AccountsChange
    \/ PruneBeginNoted
    \/ PruneAccount
    \/ PruneAccountListingFails
    \/ PruneCollection
    \/ \E i \in ItemIds, pick \in CollIds : PruneItem(i, pick)
    \/ PruneCollectionEnd
    \/ PruneEnd

SpecAccounts == InitAccounts /\ [][NextAccounts]_vars

InPrune == orch.phase = "prune"

\* what account a had when Prune was called
ItemsBefore(a) == {k \in DOMAIN hist.before.db.items : k[1] = a}
CollsBefore(a) == {c \in DOMAIN hist.before.db.colls : c[1] = a}
DirsBefore(a) == {hist.before.db.colls[c].DirPath : c \in CollsBefore(a)}

\* every record of the account is in the index as it was, but for the
\* file-path of an item
RecordsKept(a) ==
    /\ \A c \in CollsBefore(a) :
          Has(db.colls, c) /\ db.colls[c] = hist.before.db.colls[c]
    /\ \A k \in ItemsBefore(a) :
          /\ Has(db.items, k)
          /\ [db.items[k] EXCEPT !.FilePath = hist.before.db.items[k].FilePath]
                = hist.before.db.items[k]

\* nothing of the account has moved: the file-paths, the lines of the
\* manifests in its folders and the files in its folders are as they were
NothingMoved(a) ==
    /\ \A k \in ItemsBefore(a) :
          Has(db.items, k) /\ db.items[k].FilePath = hist.before.db.items[k].FilePath
    /\ \A d \in DirsBefore(a) :
          /\ d \in fs.dirs
          /\ Has(fs.lists, d) = Has(hist.before.fs.lists, d)
          /\ Has(fs.lists, d) => fs.lists[d] = hist.before.fs.lists[d]
          /\ {f \in DOMAIN fs.files : f.dir = d}
                = {f \in DOMAIN hist.before.fs.files : f.dir = d}

\* the claim as it stands: where the listing of an account has failed,
\* no collection record, item record, manifest line or file of the
\* account is deleted or moved in that run of Prune
C38_FailedListingTouchesNothing ==
    InPrune => \A a \in hist.skipped : RecordsKept(a) /\ NothingMoved(a)

\* C38: if listing the collections, or the items of one collection, fails
\* for an account during Prune, the pass over that account is skipped and
\* no collection record or item record of the account is deleted or loses
\* a membership in that run; an item of the account that shares its bytes
\* with an item of another account can still get a new file-path, with the
\* file and the pointer line moved, when the other account's item goes.
C38_FailedListingDeletesNoRecord ==
    [](InPrune => \A a \in hist.skipped : RecordsKept(a))
       /\ [][(InPrune /\ orch.cur # Nil /\ orch.cur.acct \in hist.skipped)
                => UNCHANGED <<db, fs>>]_vars

\* the first account's listing has failed, the second account's item is
\* gone, and the file the two items shared is now in the first account's
\* folder
C38_Witness ==
    /\ InPrune
    /\ hist.skipped = {MainAcct}
    /\ orch.accts = <<>>
    /\ RecordsKept(MainAcct)
    /\ ~NothingMoved(MainAcct)
    /\ ItemsBefore(OtherAcct) # {}
    /\ \A k \in ItemsBefore(OtherAcct) : ~Has(db.items, k)

(***************************************************************************)
(* Prune and the pointer lines of the items that stay.                     *)
(***************************************************************************)
\* one turn of Prune's loop has taken an item out of the collection at
\* hand without an error
PruneItemDone ==
    /\ InPrune
    /\ orch.cur # Nil
    /\ orch'.cur # Nil
    /\ orch'.items # orch.items

\* whether the media list file of the collection at hand has a line equal
\* to the file-path of item k, in index d and tree f
HasLineOf(d, f, k) == d.items[k].FilePath \in Lines(f, orch.cur.coll.DirPath)

\* C39: removing item I from collection C during Prune leaves unchanged,
\* for every other item J in C, whether C's media list file has a line
\* equal to J's file-path, also when J is a content duplicate of I and has
\* the same pointer line in the same file.
C39_OthersKeepTheirLine ==
    [][PruneItemDone =>
          \A j \in orch.cur.coll.Items \ (orch.items \ orch'.items) :
              LET k == <<orch.cur.acct, j>>
              IN  (Has(db.items, k) /\ Has(db'.items, k))
                     => (HasLineOf(db, fs, k) = HasLineOf(db', fs', k))]_vars

(***************************************************************************)
(* Prune and the files it leaves in the collection folders.                *)
(***************************************************************************)
\* the media files of tree f that no item of index d has as its file-path
Unreferenced(d, f) ==
    {p \in DOMAIN f.files : \A k \in DOMAIN d.items : d.items[k].FilePath # p}

\* C40: after Prune returns without error, every media file left in a
\* collection folder is the canonical file of some item still in the
\* index: deleting an item entirely leaves no unreferenced file behind,
\* also when its file was earlier moved into another collection under a
\* name different from its file-name.
C40_NoFileLeftBehind ==
    [][PruneReturnsNil => Unreferenced(db', fs') = {}]_vars

\* Store alone leaves no file without an item
C40_StoreLeavesNone ==
    (orch.prunes = MaxPruneRuns /\ orch.phase = "idle") => Unreferenced(db, fs) = {}

\* C2: concurrent reservations of one (dir, target-name) return pairwise
\* distinct names, and each returned name exists on disk at its return.
C2_DistinctReservations ==
    /\ \A n \in DOMAIN hist.ret : hist.ret[n] <= 1
    /\ ~hist.retMissing

====
